---- MODULE Spec2Model ----
(***************************************************************************)
(* NexusPrime software factory: the pipeline graph (core/graph.py), the    *)
(* four stage agents (agents/*.py), the Council's review parser and the    *)
(* usage meter (utils/tokens.py), as driven by process_request             *)
(* (nexus_daemon.py).                                                      *)
(*                                                                         *)
(* Texts returned by a model are sequences of lines; a line is a sequence  *)
(* of pieces (a marker such as "SCORE:", a single digit, a word, ",").     *)
(*                                                                         *)
(* Spec and LiveSpec are one process_request: the run of the graph and     *)
(* the final status; StatusSpec is the same in sessions where writes of    *)
(* status.json fail.  ParserSpec, MeterSpec, RouterSpec, SingletonSpec,    *)
(* GenaiSpec, MemorySpec and FeedbackSpec exercise the review parser, the  *)
(* usage meter, one call of the router (core/llm_router.py),               *)
(* get_llm_router, _init_google_genai, the lesson store                    *)
(* (integrations/memory.py) and the feedback formatter on inputs of their  *)
(* own, with the run of the graph left idle.                               *)
(***************************************************************************)
EXTENDS Integers, Sequences, FiniteSets, TLC

\* ------------------------------------------------------------------------
\* Settings (config.py)
\* ------------------------------------------------------------------------
max_feedback_loops == 5
dev_quality_threshold == 75
prod_quality_threshold == 95

\* ------------------------------------------------------------------------
\* Bounds of the model
\* ------------------------------------------------------------------------
\* input/output token count a provider reports for one call
MaxTokens == 1
\* cap on the model calls of one invocation; a run of the graph issues at most
\* 2 + 5 * (max_feedback_loops + 1) of them
MaxCalls == 34
\* lines of a text handed to the review parser on its own
MaxLines == 3
\* threads that call get_llm_router
MaxThreads == 3

\* ------------------------------------------------------------------------
\* Python dict helpers
\* ------------------------------------------------------------------------
EmptyDict == [k \in {} |-> 0]

\* d.get(k, default)
Get(d, k, default) == IF k \in DOMAIN d THEN d[k] ELSE default

\* {**a, **b}: the state merged with a stage's update
Merge(a, b) ==
    [k \in (DOMAIN a) \cup (DOMAIN b) |-> IF k \in DOMAIN b THEN b[k] ELSE a[k]]

Min(a, b) == IF a < b THEN a ELSE b
Max(a, b) == IF a > b THEN a ELSE b

\* ------------------------------------------------------------------------
\* utils/tokens.py
\* ------------------------------------------------------------------------
\* update_token_usage adding the prompt count to the completion counter
update_token_usage_copied_field(current_usage, new_usage) ==
    [prompt_tokens     |-> Get(current_usage, "prompt_tokens", 0)
                             + Get(new_usage, "prompt_token_count", 0),
     completion_tokens |-> Get(current_usage, "completion_tokens", 0)
                             + Get(new_usage, "prompt_token_count", 0),
     total_tokens      |-> Get(current_usage, "total_tokens", 0)
                             + Get(new_usage, "total_token_count", 0)]

\* update_token_usage overwriting the total instead of adding to it
update_token_usage_overwrite_total(current_usage, new_usage) ==
    [prompt_tokens     |-> Get(current_usage, "prompt_tokens", 0)
                             + Get(new_usage, "prompt_token_count", 0),
     completion_tokens |-> Get(current_usage, "completion_tokens", 0)
                             + Get(new_usage, "candidates_token_count", 0),
     total_tokens      |-> Get(new_usage, "total_token_count", 0)]

update_token_usage(current_usage, new_usage) ==
    [prompt_tokens     |-> Get(current_usage, "prompt_tokens", 0)
                             + Get(new_usage, "prompt_token_count", 0),
     completion_tokens |-> Get(current_usage, "completion_tokens", 0)
                             + Get(new_usage, "candidates_token_count", 0),
     total_tokens      |-> Get(current_usage, "total_tokens", 0)
                             + Get(new_usage, "total_token_count", 0)]

\* ------------------------------------------------------------------------
\* core/llm_router.py: usage as formatted by the transports
\* ------------------------------------------------------------------------
\* the "usage" object of an Anthropic response
AnthropicRawUsage ==
    {[input_tokens |-> MaxTokens, output_tokens |-> MaxTokens]}

call_anthropic_usage(usage) ==
    [prompt_tokens     |-> Get(usage, "input_tokens", 0),
     completion_tokens |-> Get(usage, "output_tokens", 0),
     total_token_count |-> Get(usage, "input_tokens", 0) + Get(usage, "output_tokens", 0)]

\* core/llm.py call_llm: response_metadata.get("token_usage", {})
CallLlmUsage ==
    {EmptyDict,
     [prompt_token_count |-> MaxTokens, candidates_token_count |-> MaxTokens,
      total_token_count |-> 2 * MaxTokens]}

\* AGENT_MODEL_MAP: provider value of the Council's reviewers
AGENT_MODEL_MAP ==
    [product_owner  |-> "claude-sonnet-4-20250514",
     dev_squad      |-> "claude-sonnet-4-20250514",
     council_claude |-> "claude-sonnet-4-20250514",
     tech_lead      |-> "gemini-3-pro-preview",
     council_gemini |-> "gemini-3-pro-preview",
     council_grok   |-> "azureml-xai/grok-3",
     council_gpt    |-> "azure-openai/gpt-5"]

\* LLMProvider
CLAUDE_SONNET_4 == "claude-sonnet-4-20250514"
GEMINI_3_PRO == "gemini-3-pro-preview"
GROK_3 == "azureml-xai/grok-3"
GPT_5 == "azure-openai/gpt-5"

\* LLMConfig.max_tokens when none is given
default_max_tokens == 8192

\* LLMConfig; a temperature is written as its decimal text
LLMConfig(provider, temperature, max_tokens) ==
    [provider |-> provider, temperature |-> temperature, max_tokens |-> max_tokens]

\* LLMConfig(provider): temperature 0.2, max_tokens 8192
DefaultConfig(provider) == LLMConfig(provider, "0.2", default_max_tokens)

\* temperature of each entry of AGENT_MODEL_MAP
AGENT_TEMPERATURE ==
    [product_owner  |-> "0.3",
     dev_squad      |-> "0.1",
     council_claude |-> "0.4",
     tech_lead      |-> "0.2",
     council_gemini |-> "0.4",
     council_grok   |-> "0.4",
     council_gpt    |-> "0.4"]

\* the lookup with GPT-5 as the default
agent_config_default_gpt(agent_name) ==
    IF agent_name \in DOMAIN AGENT_MODEL_MAP
    THEN LLMConfig(AGENT_MODEL_MAP[agent_name], AGENT_TEMPERATURE[agent_name],
                   default_max_tokens)
    ELSE DefaultConfig(GPT_5)

\* AGENT_MODEL_MAP.get(agent_name, LLMConfig(LLMProvider.CLAUDE_SONNET_4))
agent_config(agent_name) ==
    IF agent_name \in DOMAIN AGENT_MODEL_MAP
    THEN LLMConfig(AGENT_MODEL_MAP[agent_name], AGENT_TEMPERATURE[agent_name],
                   default_max_tokens)
    ELSE DefaultConfig(CLAUDE_SONNET_4)

\* the configuration of call with override_model tested before custom_config
resolve_config_override_first(agent_name, custom_config, override_model) ==
    IF override_model # "None"
    THEN LLMConfig(override_model, agent_config(agent_name).temperature,
                   default_max_tokens)
    ELSE IF custom_config # EmptyDict THEN custom_config
    ELSE agent_config(agent_name)

\* the configuration call resolves; no custom_config is the empty dict, no
\* override_model is "None"
resolve_config(agent_name, custom_config, override_model) ==
    IF custom_config # EmptyDict THEN custom_config
    ELSE IF override_model # "None"
         THEN LLMConfig(override_model, agent_config(agent_name).temperature,
                        default_max_tokens)
         ELSE agent_config(agent_name)

\* the transport method call hands the request to
transport_of(model) ==
    IF model = CLAUDE_SONNET_4 THEN "call_anthropic"
    ELSE IF model = GEMINI_3_PRO THEN "call_google"
    ELSE "call_github_models"

\* get_model_for_agent
get_model_for_agent(agent_name) ==
    IF agent_name \in DOMAIN AGENT_MODEL_MAP
    THEN AGENT_MODEL_MAP[agent_name]
    ELSE CLAUDE_SONNET_4

\* usage_formatted of _call_github_models
call_github_models_usage(usage) ==
    [prompt_tokens     |-> Get(usage, "prompt_tokens", 0),
     completion_tokens |-> Get(usage, "completion_tokens", 0),
     total_token_count |-> Get(usage, "total_tokens", 0)]

\* usage_formatted of _call_google; usage_metadata is the empty dict when the
\* response has no such attribute
call_google_usage(usage_metadata) ==
    [prompt_tokens     |-> Get(usage_metadata, "prompt_token_count", 0),
     completion_tokens |-> Get(usage_metadata, "candidates_token_count", 0),
     total_token_count |-> Get(usage_metadata, "total_token_count", 0)]

\* the usage object a provider sends for given counts (reply.has_usage false:
\* the payload has none)
provider_usage(transport, reply) ==
    IF ~reply.has_usage
    THEN IF transport = "call_github_models"
         THEN [prompt_tokens |-> 0, completion_tokens |-> 0, total_tokens |-> 0]
         ELSE EmptyDict
    ELSE IF transport = "call_anthropic"
         THEN [input_tokens |-> reply.prompt, output_tokens |-> reply.completion]
    ELSE IF transport = "call_google"
         THEN [prompt_token_count |-> reply.prompt,
               candidates_token_count |-> reply.completion,
               total_token_count |-> reply.prompt + reply.completion]
    ELSE [prompt_tokens |-> reply.prompt, completion_tokens |-> reply.completion,
          total_tokens |-> reply.prompt + reply.completion]

\* usage_formatted of the three transports
usage_formatted(transport, usage) ==
    IF transport = "call_anthropic" THEN call_anthropic_usage(usage)
    ELSE IF transport = "call_google" THEN call_google_usage(usage)
    ELSE call_github_models_usage(usage)

\* the transport raises ValueError before it sends anything: the API key of
\* its provider is not set
key_missing(transport, req) ==
    \/ transport = "call_anthropic" /\ ~req.anthropic_api_key
    \/ transport = "call_google" /\ ~req.google_api_key

\* _init_google_genai raises ImportError: the SDK is not installed
sdk_missing(transport, req) == transport = "call_google" /\ ~req.google_sdk

\* what a transport returns or raises for the provider's reply
transport_result(transport, req) ==
    IF key_missing(transport, req)
    THEN [status |-> "raised", exception |-> "ValueError"]
    ELSE IF sdk_missing(transport, req)
    THEN [status |-> "raised", exception |-> "ImportError"]
    ELSE IF req.reply.kind = "http_error"
    THEN [status |-> "raised", exception |-> "HTTPStatusError"]
    ELSE IF req.reply.kind = "malformed"
    THEN [status |-> "raised", exception |-> "KeyError"]
    ELSE [status |-> "ok",
          usage  |-> usage_formatted(transport, provider_usage(transport, req.reply))]

\* ------------------------------------------------------------------------
\* agents/council.py: the review parser
\* ------------------------------------------------------------------------
Digits == {"0", "1", "2", "3", "4", "5", "6", "7", "8", "9"}

\* characters other than 0-9 for which str.isdigit is true and which int()
\* rejects with ValueError (superscript two)
OtherDigits == {"sup2"}

\* a run of 4301 characters "9"
LongDigitRun == "nines4301"

\* sys.int_info.default_max_str_digits: int() raises ValueError on a longer
\* digit string (Python 3.11 and later)
int_max_str_digits == 4300

\* str.isdigit on every character of a piece
IsDigit(p) == p \in Digits \cup OtherDigits \cup {LongDigitRun}

DigitVal(p) ==
    CASE p = "0" -> 0 [] p = "1" -> 1 [] p = "2" -> 2 [] p = "3" -> 3
      [] p = "4" -> 4 [] p = "5" -> 5 [] p = "6" -> 6 [] p = "7" -> 7
      [] p = "8" -> 8 [] p = "9" -> 9

\* pieces that contain a colon, and whether the text before the colon is
\* upper case (str.isupper)
ColonPieces == {"SCORE:", "FINAL_SCORE:", "REASONING:", "CONCERNS:",
                "score:", "reasoning:", "concerns:", "Note:"}
UpperColonPieces == {"SCORE:", "FINAL_SCORE:", "REASONING:", "CONCERNS:"}

\* 'SCORE:' in line.upper() or 'FINAL_SCORE:' in line.upper()
HasScoreMarker(line) ==
    \E i \in 1..Len(line) : line[i] \in {"SCORE:", "FINAL_SCORE:", "score:"}

\* 'REASONING:' in line.upper()
HasReasoningMarker(line) ==
    \E i \in 1..Len(line) : line[i] \in {"REASONING:", "reasoning:"}

\* 'CONCERNS:' in line.upper()
HasConcernsMarker(line) ==
    \E i \in 1..Len(line) : line[i] \in {"CONCERNS:", "concerns:"}

\* ''.join(filter(str.isdigit, line))
DigitsOf(line) == SelectSeq(line, IsDigit)

\* len(p) of the pieces that occur in the modelled texts
PieceLen(p) ==
    CASE p \in Digits \cup OtherDigits \cup {",", "-"} -> 1
      [] p = LongDigitRun -> 4301
      [] p \in {"SCORE:", "score:"} -> 6
      [] p = "FINAL_SCORE:" -> 12
      [] p \in {"REASONING:", "reasoning:"} -> 10
      [] p \in {"CONCERNS:", "concerns:"} -> 9
      [] p = "Note:" -> 5
      [] p \in {"None", "none", "NONE", "weak", "bugs"} -> 4
      [] p \in {"solid", "tests", "fixes", "found"} -> 5
      [] p = "no" -> 2
      [] p = "unsafe" -> 6
      [] p \in {"consensus", "undecided"} -> 9
      [] p = "the code handles every case" -> 27
      [] p = "prose200" -> 200

\* pieces are separated by one blank, except a "," and the digits of a number
Glued(prev, p) == p = "," \/ (IsDigit(p) /\ (IsDigit(prev) \/ prev = "-"))

RECURSIVE CharsUpTo(_, _)
\* len of the first n pieces of a line, as the line is written
CharsUpTo(line, n) ==
    IF n = 0 THEN 0
    ELSE CharsUpTo(line, n - 1) + PieceLen(line[n])
           + (IF n = 1 \/ Glued(line[n - 1], line[n]) THEN 0 ELSE 1)

\* len(line.strip())
LineChars(line) == CharsUpTo(line, Len(line))

RECURSIVE TextChars(_, _)
\* len of the first n lines of a text, each with its newline
TextChars(lines, n) ==
    IF n = 0 THEN 0 ELSE TextChars(lines, n - 1) + LineChars(lines[n]) + 1

RECURSIVE DigitsBefore(_, _, _)
\* the digit pieces of the first n lines that start before character `cut`
DigitsBefore(lines, n, cut) ==
    IF n = 0 THEN <<>>
    ELSE LET line == lines[n]
             start == TextChars(lines, n - 1)
             keep == {j \in 1..Len(line) :
                        /\ IsDigit(line[j])
                        /\ start + CharsUpTo(line, j) - PieceLen(line[j]) < cut}
             Kept(j) == j \in keep
             idx == SelectSeq([j \in 1..Len(line) |-> j], Kept)
         IN  DigitsBefore(lines, n - 1, cut) \o [k \in 1..Len(idx) |-> line[idx[k]]]

RECURSIVE Flatten(_)
\* the pieces of a text, line after line
Flatten(lines) ==
    IF Len(lines) = 0 THEN <<>> ELSE Head(lines) \o Flatten(Tail(lines))

\* the digits of the whole response, without the [:200]
DigitsOfWhole(response) == DigitsOf(Flatten(response))

\* ''.join(filter(str.isdigit, response[:200]))
DigitsOfFirst200(response) == DigitsBefore(response, Len(response), 200)

\* int(score_str) raises ValueError
IntRaises(ds) ==
    \/ \E i \in 1..Len(ds) : ds[i] \in OtherDigits
    \/ CharsUpTo(ds, Len(ds)) > int_max_str_digits

RECURSIVE ToIntUpTo(_, _)
\* value of the first n digits of a digit string
ToIntUpTo(ds, n) ==
    IF n = 0 THEN 0 ELSE 10 * ToIntUpTo(ds, n - 1) + DigitVal(ds[n])

\* int(score_str) for a non-empty digit string
ToInt(ds) == ToIntUpTo(ds, Len(ds))

\* min(100, max(0, n))
Clamp(n) == Min(100, Max(0, n))

\* min(100, max(0, int(score_str))), 70 when int raises ValueError
ScoreOfDigits(score_str) ==
    IF IntRaises(score_str) THEN 70 ELSE Clamp(ToInt(score_str))

\* _extract_score on a str
extract_score(response) ==
    LET hits == {i \in 1..Len(response) :
                    HasScoreMarker(response[i]) /\ Len(DigitsOf(response[i])) > 0}
    IN  IF hits # {}
        THEN LET i == CHOOSE j \in hits : \A k \in hits : j <= k
             IN  ScoreOfDigits(DigitsOf(response[i]))
        ELSE IF Len(DigitsOfFirst200(response)) > 0
             THEN ScoreOfDigits(DigitsOfFirst200(response))
             ELSE 70

\* index of the first piece of a line that contains ':' (0 when none)
FirstColon(line) ==
    LET cs == {i \in 1..Len(line) : line[i] \in ColonPieces}
    IN  IF cs = {} THEN 0 ELSE CHOOSE j \in cs : \A k \in cs : j <= k

\* line.split(':', 1)[1].strip(): the pieces after the first colon
AfterColon(line) == SubSeq(line, FirstColon(line) + 1, Len(line))

\* ':' in next_line and next_line.split(':')[0].strip().isupper()
IsFieldLine(line) ==
    /\ FirstColon(line) > 0
    /\ line[FirstColon(line)] \in UpperColonPieces
    /\ \A i \in 1..(FirstColon(line) - 1) :
          IsDigit(line[i]) \/ line[i] \in {",", "-", "NONE"}

RECURSIVE ReasoningTail_no_break(_)
\* the following lines without the break at the next field line
ReasoningTail_no_break(lines) ==
    IF Len(lines) = 0 THEN <<>>
    ELSE IF Len(Head(lines)) > 0
         THEN <<Head(lines)>> \o ReasoningTail_no_break(Tail(lines))
         ELSE ReasoningTail_no_break(Tail(lines))

RECURSIVE ReasoningTail_stop_at_blank(_)
\* the following lines up to the next field line or blank line
ReasoningTail_stop_at_blank(lines) ==
    IF Len(lines) = 0 THEN <<>>
    ELSE IF IsFieldLine(Head(lines)) \/ Len(Head(lines)) = 0 THEN <<>>
    ELSE <<Head(lines)>> \o ReasoningTail_stop_at_blank(Tail(lines))

RECURSIVE ReasoningTail(_)
\* the following lines up to the next field line, blank lines skipped
ReasoningTail(lines) ==
    IF Len(lines) = 0 THEN <<>>
    ELSE IF IsFieldLine(Head(lines)) THEN <<>>
    ELSE IF Len(Head(lines)) > 0
         THEN <<Head(lines)>> \o ReasoningTail(Tail(lines))
         ELSE ReasoningTail(Tail(lines))

\* line.strip()[:200]: the pieces that end within the first 200 characters,
\* followed by "(cut)" when the slice ends inside a piece
First200(line) ==
    LET whole == {n \in 0..Len(line) : CharsUpTo(line, n) <= 200}
        n == CHOOSE m \in whole : \A k \in whole : k <= m
    IN  IF n = Len(line) THEN line
        ELSE IF CharsUpTo(line, n + 1) - PieceLen(line[n + 1]) < 200
             THEN Append(SubSeq(line, 1, n), "(cut)")
             ELSE SubSeq(line, 1, n)

\* _extract_reasoning on a str: the parts that ' '.join puts together
extract_reasoning(response) ==
    LET hits == {i \in 1..Len(response) : HasReasoningMarker(response[i])}
        long == {i \in 1..Len(response) : LineChars(response[i]) > 20}
    IN  IF hits # {}
        THEN LET i == CHOOSE j \in hits : \A k \in hits : j <= k
             IN  <<AfterColon(response[i])>>
                    \o ReasoningTail(SubSeq(response, i + 1, Len(response)))
        ELSE IF long # {}
             THEN <<First200(response[CHOOSE j \in long : \A k \in long : j <= k])>>
             ELSE <<<<"No reasoning provided">>>>

RECURSIVE SplitComma(_, _)
\* concerns_text.split(','), each item stripped; cur is the item being read
SplitComma(ps, cur) ==
    IF Len(ps) = 0 THEN <<cur>>
    ELSE IF Head(ps) = "," THEN <<cur>> \o SplitComma(Tail(ps), <<>>)
    ELSE SplitComma(Tail(ps), Append(cur, Head(ps)))

NonEmpty(item) == Len(item) > 0

\* _extract_concerns comparing the text with 'none' without .lower()
extract_concerns_case_sensitive(response) ==
    LET hits == {i \in 1..Len(response) : HasConcernsMarker(response[i])}
    IN  IF hits # {}
        THEN LET i == CHOOSE j \in hits : \A k \in hits : j <= k
                 concerns_text == AfterColon(response[i])
             IN  IF concerns_text = <<"none">>
                 THEN <<>>
                 ELSE SelectSeq(SplitComma(concerns_text, <<>>), NonEmpty)
        ELSE <<>>

\* _extract_concerns on a str
extract_concerns(response) ==
    LET hits == {i \in 1..Len(response) : HasConcernsMarker(response[i])}
    IN  IF hits # {}
        THEN LET i == CHOOSE j \in hits : \A k \in hits : j <= k
                 concerns_text == AfterColon(response[i])
             IN  IF concerns_text \in {<<"None">>, <<"none">>, <<"NONE">>}
                 THEN <<>>
                 ELSE SelectSeq(SplitComma(concerns_text, <<>>), NonEmpty)
        ELSE <<>>

\* the exception response.split raises on a value of the given type; the
\* values a decoded provider payload can hold
PayloadTypes == {"str", "None", "int", "list", "dict"}
SplitRaises(type) == IF type = "str" THEN "none" ELSE "AttributeError"

\* _extract_score with an except clause for ValueError only
call_extract_score_value_error_only(arg) ==
    IF arg.type = "str"
    THEN [raised |-> "none", value |-> extract_score(arg.text)]
    ELSE [raised |-> SplitRaises(arg.type), value |-> 0]

\* _extract_score together with its except clause, on any argument
call_extract_score(arg) ==
    IF SplitRaises(arg.type) = "none"
    THEN [raised |-> "none", value |-> extract_score(arg.text)]
    ELSE IF SplitRaises(arg.type) \in {"ValueError", "AttributeError"}
         THEN [raised |-> "none", value |-> 70]
         ELSE [raised |-> SplitRaises(arg.type), value |-> 0]

\* _extract_reasoning together with its except clause
call_extract_reasoning(arg) ==
    IF SplitRaises(arg.type) = "none"
    THEN extract_reasoning(arg.text)
    ELSE <<<<"Failed to extract reasoning">>>>

\* _extract_concerns together with its except clause
call_extract_concerns(arg) ==
    IF SplitRaises(arg.type) = "none" THEN extract_concerns(arg.text) ELSE <<>>

\* ------------------------------------------------------------------------
\* Replies of the models (inputs of the run)
\* ------------------------------------------------------------------------
\* free-text requirement and environment hint of the inbound request
RequestPrompts == {"build a todo app"}
RequestEnvHints == {"PROD"}

\* str(e) of the exceptions router.call raises
ProviderErrors == {"HTTPStatusError", "ANTHROPIC_API_KEY environment variable is required for Claude models"}

\* specification texts returned to the Product Owner
SpecReplies == {"SPEC.md: todo app"}

\* replies to the Tech Lead's "PROD or DEV" question
EnvReplies == {"PROD", "DEV", "prod-ready", "prototype"}

\* "PROD" in env_decision.upper()
ContainsPROD(reply) == reply \in {"PROD", "prod-ready"}

\* code returned to the Dev Squad (markdown fences already stripped)
CodeReplies == {"print('v1')", "print('v2')"}

ReviewGood ==
    << <<"SCORE:", "9", "0">>, <<"REASONING:", "solid">>, <<"CONCERNS:", "None">> >>
ReviewBad ==
    << <<"SCORE:", "4", "0">>, <<"REASONING:", "weak">>,
       <<"CONCERNS:", "no", "tests", ",", "unsafe">> >>

\* replies of a Council reviewer
ReviewReplies == {ReviewGood}

ArbReply(d1, d2) ==
    << <<"FINAL_SCORE:", d1, d2>>, <<"REASONING:", "consensus">> >>

\* replies of the arbitration call: scores on both sides of each threshold,
\* and one without any score
ArbReplies ==
    {ArbReply("7", "5"), ArbReply("7", "6"), ArbReply("9", "5"), ArbReply("9", "9"),
     << <<"REASONING:", "undecided">> >>}

\* ------------------------------------------------------------------------
\* core/graph.py
\* ------------------------------------------------------------------------
\* route_council with the score compared before the loop bound
route_council_score_first(state) ==
    LET score == Get(state, "quality_score", 0)
        env == Get(state, "env_mode", "DEV")
        loop_count == Get(state, "feedback_loop_count", 0)
    IN  IF env = "DEV" /\ score > dev_quality_threshold THEN "approved"
        ELSE IF env = "PROD" /\ score > prod_quality_threshold THEN "approved"
        ELSE IF loop_count > max_feedback_loops THEN "failed"
        ELSE "rejected"

\* route_council without the loop bound
route_council_unbounded(state) ==
    LET score == Get(state, "quality_score", 0)
        env == Get(state, "env_mode", "DEV")
    IN  IF env = "DEV" /\ score > dev_quality_threshold THEN "approved"
        ELSE IF env = "PROD" /\ score > prod_quality_threshold THEN "approved"
        ELSE "rejected"

\* route_council approving a score equal to the threshold
route_council_at_least(state) ==
    LET score == Get(state, "quality_score", 0)
        env == Get(state, "env_mode", "DEV")
        loop_count == Get(state, "feedback_loop_count", 0)
    IN  IF loop_count > max_feedback_loops THEN "failed"
        ELSE IF env = "DEV" /\ score >= dev_quality_threshold THEN "approved"
        ELSE IF env = "PROD" /\ score >= prod_quality_threshold THEN "approved"
        ELSE "rejected"

\* route_council failing one loop later
route_council_one_more(state) ==
    LET score == Get(state, "quality_score", 0)
        env == Get(state, "env_mode", "DEV")
        loop_count == Get(state, "feedback_loop_count", 0)
    IN  IF loop_count > max_feedback_loops + 1 THEN "failed"
        ELSE IF env = "DEV" /\ score > dev_quality_threshold THEN "approved"
        ELSE IF env = "PROD" /\ score > prod_quality_threshold THEN "approved"
        ELSE "rejected"

route_council(state) ==
    LET score == Get(state, "quality_score", 0)
        env == Get(state, "env_mode", "DEV")
        loop_count == Get(state, "feedback_loop_count", 0)
    IN  IF loop_count > max_feedback_loops THEN "failed"
        ELSE IF env = "DEV" /\ score > dev_quality_threshold THEN "approved"
        ELSE IF env = "PROD" /\ score > prod_quality_threshold THEN "approved"
        ELSE "rejected"

\* edges that send a failed review back to the Dev Squad
CouncilEdges_failed_loops ==
    [approved |-> "END", rejected |-> "dev_squad", failed |-> "dev_squad"]

\* the conditional edges out of "council"
CouncilEdges == [approved |-> "END", rejected |-> "dev_squad", failed |-> "END"]

\* ------------------------------------------------------------------------
\* agents/council.py: opinions, arbitration fallback, feedback
\* ------------------------------------------------------------------------
\* reviewers = [("GPT-5", "council_gpt"), ("Gemini", ...), ("Claude", ...)]
reviewers ==
    << <<"GPT-5", "council_gpt">>, <<"Gemini", "council_gemini">>,
       <<"Claude", "council_claude">> >>

\* the opinion built from a reviewer's reply
ParsedOpinion(reviewer_name, agent_name, response) ==
    [reviewer  |-> reviewer_name,
     model     |-> AGENT_MODEL_MAP[agent_name],
     score     |-> extract_score(response),
     reasoning |-> extract_reasoning(response),
     concerns  |-> extract_concerns(response)]

\* a default opinion carrying the parser's default score and no concern
ErrorOpinion_default_score(reviewer_name) ==
    [reviewer  |-> reviewer_name,
     model     |-> "error",
     score     |-> 70,
     reasoning |-> <<<<"Review failed">>>>,
     concerns  |-> <<>>]

\* the default opinion added when a reviewer's call raises
ErrorOpinion(reviewer_name) ==
    [reviewer  |-> reviewer_name,
     model     |-> "error",
     score     |-> 50,
     reasoning |-> <<<<"Review failed">>>>,
     concerns  |-> <<<<"Review error">>>>]

RECURSIVE SumScores(_, _)
\* sum(op.score for op in opinions), from position i on
SumScores(ops, i) ==
    IF i > Len(ops) THEN 0 ELSE ops[i].score + SumScores(ops, i + 1)

\* the average rounded up
average_score_ceil(ops) == (SumScores(ops, 1) + Len(ops) - 1) \div Len(ops)

\* the fallback of _arbitrate_reviews: sum(...) // len(opinions)
average_score(ops) == SumScores(ops, 1) \div Len(ops)

NoMajorIssues == "Aucun probleme majeur identifie. Continuez avec le meme niveau de qualite."

\* one "  * concern" line per concern
Bullets(cs) == [i \in 1..Len(cs) |-> <<"bullet", cs[i]>>]

\* a block that lists the first concern of the opinion only
ConcernBlock_first_concern(op) ==
    IF Len(op.concerns) > 0
    THEN <<<<"reviewer", op.reviewer, op.model, op.score>>>>
           \o Bullets(SubSeq(op.concerns, 1, 1))
           \o <<<<"Raisonnement", op.reasoning>>>>
    ELSE <<>>

\* the lines appended for an opinion: none when it has no concern
ConcernBlock(op) ==
    IF Len(op.concerns) > 0
    THEN <<<<"reviewer", op.reviewer, op.model, op.score>>>>
           \o Bullets(op.concerns)
           \o <<<<"Raisonnement", op.reasoning>>>>
    ELSE <<>>

RECURSIVE ConcernBlocks(_, _)
\* the lines appended for the opinions from position i on
ConcernBlocks(ops, i) ==
    IF i > Len(ops) THEN <<>>
    ELSE ConcernBlock(ops[i]) \o ConcernBlocks(ops, i + 1)

\* _format_concerns_for_dev_squad: the lines of the feedback text
format_concerns_for_dev_squad(ops) ==
    LET feedback_lines == <<<<"CONCERNS A CORRIGER:">>>> \o ConcernBlocks(ops, 1)
    IN  IF Len(feedback_lines) = 1 THEN <<<<NoMajorIssues>>>> ELSE feedback_lines

\* an approval test that knows the PROD threshold only
is_approved_prod_only(env, final_score) ==
    env = "PROD" /\ final_score > prod_quality_threshold

\* is_approved of CouncilAgent.execute
is_approved(env, final_score) ==
    \/ env = "DEV" /\ final_score > dev_quality_threshold
    \/ env = "PROD" /\ final_score > prod_quality_threshold

\* ------------------------------------------------------------------------
\* State of one invocation
\* ------------------------------------------------------------------------
VARIABLES
    pc,          \* the node the graph runs next; "END" or "ERROR" when over
    state,       \* NexusFactoryState, a dict
    route,       \* result of the last route_council ("none" before)
    opinions,    \* the list _gather_independent_reviews is building
    outcomes,    \* outcome of each reviewer call of the running Review
    arbitration, \* outcome of the last arbitration call ("none" before)
    gen_prompt,  \* prompt of the last Dev Squad call
    artifact,    \* code last written to workspace/app_<env>.py
    lessons,     \* number of lessons in the memory file
    pushed,      \* number of pushes that reached the repository
    trace,       \* nodes executed so far, in order
    calls,       \* model calls issued so far, in order
    effects,     \* calls to external sinks issued so far, in order
    status_file,   \* status.json, the snapshot published for the dashboard
    last_snapshot, \* the last save_status_snapshot of a stage and its outcome
    raised,        \* the exception that ended the run ("none" when none did)
    failed_calls,  \* the stages whose model call has raised in this run
    status_faults, \* which writes of status.json fail in this session
    daemon_pc,     \* where run_daemon is: in "process_request" or back at "poll"
    request_data,  \* the request handed to process_request
    \* the review parser, called on its own
    review_text, \* the argument of the three extractions
    parsed,      \* what they returned
    \* the usage meter, called on its own
    incoming,    \* usage records of the calls of a run
    applied,     \* indices of the records merged so far
    cumulative,  \* the cumulative counters ("total_tokens" of the state)
    last_merge,  \* arguments and result of the last update_token_usage
    \* one call of the router
    request,     \* arguments of call, API keys of the router, provider's answer
    dispatched,  \* transport methods call has invoked, in order
    requests,    \* requests the transports have issued, in order
    result,      \* what call returned or raised
    \* get_llm_router called from several threads
    router_instance, \* _router_instance: 0 for None, else the n-th router built
    router_lock,     \* _router_lock: 0 when free, else the thread holding it
    thread_pc,       \* position of each thread in get_llm_router
    thread_ret,      \* what each thread's last call returned (0: nothing yet)
    constructed,     \* number of GitHubModelsRouter objects constructed
    \* _init_google_genai called from several threads on one router
    google_genai,    \* self._google_genai: 0 for None, 1 for the SDK module
    google_key,      \* whether self.google_api_key is set
    google_sdk,      \* whether google.generativeai can be imported
    genai_pc,        \* position of each thread in _init_google_genai
    genai_configured, \* number of genai.configure calls so far
    \* one NexusMemory instance and its file
    mem_data,        \* self.data["lessons"]
    mem_file,        \* the file at memory_path
    mem_clock,       \* number of store_lesson calls so far (uuid4 and now())
    mem_embed,       \* self.use_embeddings
    mem_write_failed, \* whether a write of the file has failed so far
    mem_last,        \* the last call on the instance, its arguments and result
    \* _format_concerns_for_dev_squad called on opinions of its own
    fb_opinions,     \* the opinions passed
    fb_result,       \* whether the call has returned, and the lines returned
    \* the reports of successive council reviews
    rep_reviews,     \* state["previous_reviews"]
    rep_call,        \* the last _generate_report call: arguments and report
    rep_round,       \* number of reviews so far
    \* the loop of run_daemon over the request file
    loop_pc,         \* where run_daemon is
    loop_request,    \* request_data of run_daemon
    request_file,    \* request.json: <<>> when absent, else <<request>>
    processed_file,  \* request.processed.json, likewise
    processed_count, \* how often process_request was called with each request
    loop_written,    \* number of requests the dashboard has written
    loop_polls       \* number of polls so far

pipeline_vars == <<pc, state, route, opinions, outcomes, arbitration, gen_prompt,
                   artifact, lessons, pushed, trace, calls, effects,
                   status_file, last_snapshot, raised, failed_calls, status_faults>>
daemon_vars == <<daemon_pc, request_data>>
parser_vars == <<review_text, parsed>>
meter_vars == <<incoming, applied, cumulative, last_merge>>
router_vars == <<request, dispatched, requests, result>>
singleton_vars == <<router_instance, router_lock, thread_pc, thread_ret, constructed>>
genai_vars == <<google_genai, google_key, google_sdk, genai_pc, genai_configured>>
memory_vars == <<mem_data, mem_file, mem_clock, mem_embed, mem_write_failed, mem_last>>
feedback_vars == <<fb_opinions, fb_result>>
report_vars == <<rep_reviews, rep_call, rep_round>>
loop_vars == <<loop_pc, loop_request, request_file, processed_file, processed_count,
               loop_written, loop_polls>>

vars == <<pc, state, route, opinions, outcomes, arbitration, gen_prompt, artifact,
          lessons, pushed, trace, calls, effects,
          status_file, last_snapshot, raised, failed_calls, status_faults,
          daemon_pc, request_data,
          review_text, parsed, incoming, applied, cumulative, last_merge,
          request, dispatched, requests, result,
          router_instance, router_lock, thread_pc, thread_ret, constructed,
          google_genai, google_key, google_sdk, genai_pc, genai_configured,
          mem_data, mem_file, mem_clock, mem_embed, mem_write_failed, mem_last,
          fb_opinions, fb_result,
          rep_reviews, rep_call, rep_round,
          loop_pc, loop_request, request_file, processed_file, processed_count, loop_written, loop_polls>>

\* the channels of NexusFactoryState (core/state.py)
StateKeys ==
    {"messages", "spec_document", "file_system_state", "env_mode", "current_status",
     "feedback_loop_count", "quality_score", "review_comments", "memory_context",
     "total_tokens", "previous_code", "previous_reviews"}

\* the graph applies a node's update to the channels of the state
ApplyUpdate(st, update) ==
    Merge(st, [k \in (DOMAIN update) \cap StateKeys |-> update[k]])

\* initial_state of process_request
initial_state(prompt, env_mode) ==
    [messages |-> <<prompt>>, env_mode |-> env_mode, feedback_loop_count |-> 0]

NoPrompt == [instruction |-> "", includes |-> EmptyDict]

\* no text has been handed to the parser
ParserIdle ==
    /\ review_text = [type |-> "None"]
    /\ parsed = EmptyDict

\* no usage has been merged outside the run
MeterIdle ==
    /\ incoming = <<>>
    /\ applied = {}
    /\ cumulative = EmptyDict
    /\ last_merge = EmptyDict

\* the router has not been called outside the run
RouterIdle ==
    /\ request = EmptyDict
    /\ dispatched = <<>>
    /\ requests = <<>>
    /\ result = [status |-> "none"]

\* no thread is inside get_llm_router
SingletonIdle ==
    /\ router_instance = 0
    /\ router_lock = 0
    /\ thread_pc = <<>>
    /\ thread_ret = <<>>
    /\ constructed = 0

\* no thread is inside _init_google_genai
GenaiIdle ==
    /\ google_genai = 0
    /\ google_key = FALSE
    /\ google_sdk = FALSE
    /\ genai_pc = <<>>
    /\ genai_configured = 0

\* no NexusMemory instance has been created outside the run
MemoryIdle ==
    /\ mem_data = <<>>
    /\ mem_file = [kind |-> "absent"]
    /\ mem_clock = 0
    /\ mem_embed = FALSE
    /\ mem_write_failed = FALSE
    /\ mem_last = [op |-> "none"]

\* _format_concerns_for_dev_squad is not called outside the run
FeedbackIdle ==
    /\ fb_opinions = <<>>
    /\ fb_result = [returned |-> FALSE]

\* no report is generated outside the run
ReportIdle ==
    /\ rep_reviews = <<>>
    /\ rep_call = [returned |-> FALSE]
    /\ rep_round = 0

\* most requests the dashboard writes, and most polls followed
MaxRequests == 2
MaxPolls == 3

\* the daemon is not polling
LoopIdle ==
    /\ loop_pc = "stopped"
    /\ loop_request = <<>>
    /\ request_file = <<>>
    /\ processed_file = <<>>
    /\ processed_count = [r \in 1..MaxRequests |-> 0]
    /\ loop_written = 0
    /\ loop_polls = 0

\* the components that are exercised on inputs of their own
component_vars == <<parser_vars, meter_vars, router_vars, singleton_vars, genai_vars,
                    memory_vars, feedback_vars, report_vars, loop_vars>>

ComponentsIdle ==
    /\ ParserIdle /\ MeterIdle /\ RouterIdle /\ SingletonIdle /\ GenaiIdle
    /\ MemoryIdle /\ FeedbackIdle /\ ReportIdle /\ LoopIdle

\* state.get(key): a one-element sequence, empty for None
Opt(st, key) == IF key \in DOMAIN st THEN <<st[key]>> ELSE <<>>

\* len(text) of the texts of a run
StrLen(text) ==
    CASE text = "build a todo app" -> 16
      [] text = "SPEC.md: todo app" -> 17
      [] text = "" -> 0

\* text[:n]
Cut(text, n) == [of |-> text, chars |-> Min(StrLen(text), n)]

ZeroTokens == [prompt_tokens |-> 0, completion_tokens |-> 0, total_tokens |-> 0]

\* a snapshot whose loop count stays at the initial value
Snapshot_zero_loops(st) ==
    [current_status      |-> Opt(st, "current_status"),
     env_mode            |-> Opt(st, "env_mode"),
     quality_score       |-> Opt(st, "quality_score"),
     feedback_loop_count |-> <<0>>,
     spec_excerpt        |-> [prefix |-> "", text |-> Cut(Get(st, "spec_document", ""), 200),
                              suffix |-> ""],
     last_message        |-> [prefix |-> "",
                              text   |-> IF Get(st, "messages", <<>>) # <<>>
                                         THEN st.messages[Len(st.messages)] ELSE ""],
     total_tokens        |-> Get(st, "total_tokens", ZeroTokens)]

\* the snapshot dict of save_status_snapshot
Snapshot(st) ==
    [current_status      |-> Opt(st, "current_status"),
     env_mode            |-> Opt(st, "env_mode"),
     quality_score       |-> Opt(st, "quality_score"),
     feedback_loop_count |-> Opt(st, "feedback_loop_count"),
     spec_excerpt        |-> [prefix |-> "", text |-> Cut(Get(st, "spec_document", ""), 200),
                              suffix |-> ""],
     last_message        |-> [prefix |-> "",
                              text   |-> IF Get(st, "messages", <<>>) # <<>>
                                         THEN st.messages[Len(st.messages)] ELSE ""],
     total_tokens        |-> Get(st, "total_tokens", ZeroTokens)]

\* a stage's snapshot built from the state it was given, without its update
stage_snapshot_before_update(st, update) ==
    Snapshot(st)

\* save_status_snapshot({**state, **state_update}) at the end of a stage
stage_snapshot(st, update) ==
    Snapshot(Merge(st, update))

\* initial_status of initialize_status
initial_status(prompt, env_mode) ==
    [current_status      |-> <<"INITIALIZING">>,
     env_mode            |-> <<env_mode>>,
     quality_score       |-> <<0>>,
     feedback_loop_count |-> <<0>>,
     spec_excerpt        |-> [prefix |-> "Request: ", text |-> Cut(prompt, 200),
                              suffix |-> IF StrLen(prompt) > 200 THEN "..." ELSE ""],
     last_message        |-> [prefix |-> "", text |-> "Factory starting..."],
     total_tokens        |-> ZeroTokens]

\* an error status that keeps the status of a starting run
error_status_still_starting(prompt, env_mode, e) ==
    initial_status(prompt, env_mode)

\* error_status of process_request; e: str(e) of the exception caught
error_status(prompt, env_mode, e) ==
    [current_status      |-> <<"ERROR">>,
     env_mode            |-> <<env_mode>>,
     quality_score       |-> <<0>>,
     feedback_loop_count |-> <<0>>,
     spec_excerpt        |-> [prefix |-> "Request: ", text |-> Cut(prompt, 200),
                              suffix |-> "..."],
     last_message        |-> [prefix |-> "Error: ", text |-> e],
     total_tokens        |-> ZeroTokens]

\* the sessions told apart by the writes of status.json that fail in them:
\* none, those of the stages, or those of process_request
FaultPatterns == {"none", "stages", "process_request"}

\* how a write of status.json by writer ends in a session: well, or with an
\* exception at open or during the dump (logged)
WriteOutcomes(faults, writer) ==
    IF faults = writer THEN {"open failed", "dump failed"}
    ELSE {"written"}

\* the file after open(status_file, "w") and json.dump(snapshot, f)
AfterWrite(file, snapshot, outcome) ==
    CASE outcome = "written" -> [kind |-> "json", content |-> snapshot]
      [] outcome = "open failed" -> file
      [] outcome = "dump failed" -> [kind |-> "corrupt"]

\* run_daemon has no request at hand
DaemonIdle ==
    /\ daemon_pc = "poll"
    /\ request_data = EmptyDict

\* the pipeline before process_request invokes the graph
PipelineIdle ==
    /\ DaemonIdle
    /\ status_file = [kind |-> "absent"]
    /\ last_snapshot = [outcome |-> "none"]
    /\ raised = "none"
    /\ failed_calls = {}
    /\ status_faults = "none"
    /\ pc = "product_owner"
    /\ state = EmptyDict
    /\ route = "none"
    /\ opinions = <<>>
    /\ outcomes = <<>>
    /\ arbitration = "none"
    /\ gen_prompt = NoPrompt
    /\ artifact = ""
    /\ lessons = 0
    /\ pushed = 0
    /\ trace = <<>>
    /\ calls = <<>>
    /\ effects = <<>>

\* process_request up to app.invoke(initial_state), in a session with the
\* given faults, for a request whose env_mode is one of hints
InvokedWithHints(faults, hints) ==
    /\ ComponentsIdle
    /\ daemon_pc = "process_request"
    /\ pc = "product_owner"
    /\ \E prompt \in RequestPrompts, hint \in hints :
           /\ request_data = [prompt |-> prompt, env_mode |-> hint]
           /\ state = initial_state(prompt, hint)
           /\ \E outcome \in WriteOutcomes(faults, "process_request") :
                  status_file = AfterWrite([kind |-> "absent"],
                                           initial_status(prompt, hint), outcome)
    /\ last_snapshot = [outcome |-> "none"]
    /\ raised = "none"
    /\ failed_calls = {}
    /\ status_faults = faults
    /\ route = "none"
    /\ opinions = <<>>
    /\ outcomes = <<>>
    /\ arbitration = "none"
    /\ gen_prompt = NoPrompt
    /\ artifact = ""
    /\ lessons = 0
    /\ pushed = 0
    /\ trace = <<>>
    /\ calls = <<>>
    /\ effects = <<>>

\* process_request up to app.invoke(initial_state) for the requests of the
\* dashboard
InvokedWith(faults) == InvokedWithHints(faults, RequestEnvHints)

\* a session in which every write of status.json goes well
Init == InvokedWith("none")

\* env_mode of request.json: request_data.get("env_mode", "DEV") takes any
\* value the file holds
AnyEnvHints == {"DEV", "PROD", "staging"}

\* the same session for a request with any env_mode
EnvInit == InvokedWithHints("none", AnyEnvHints)

\* state_update of ProductOwnerAgent.execute
product_owner_update(st, spec, usage) ==
    [current_status |-> "Agent: Product Owner (Refining Spec)",
     spec_document  |-> spec,
     total_tokens   |-> update_token_usage(Get(st, "total_tokens", EmptyDict), usage)]

\* ProductOwnerAgent.execute
product_owner_node ==
    /\ pc = "product_owner"
    /\ Len(calls) < MaxCalls
    /\ trace' = Append(trace, "product_owner")
    /\ calls' = Append(calls, "product_owner")
    /\ \/ \* router.call raises: logged and re-raised
          /\ pc' = "ERROR"
          /\ raised' \in ProviderErrors
          /\ failed_calls' = failed_calls \cup {"product_owner"}
          /\ UNCHANGED <<state, status_file, last_snapshot>>
       \/ \E spec \in SpecReplies, usage \in AnthropicRawUsage :
          \E state_update \in {product_owner_update(state, spec,
                                                     call_anthropic_usage(usage))} :
          \E snapshot \in {stage_snapshot(state, state_update)} :
          \E outcome \in WriteOutcomes(status_faults, "stages") :
             /\ state' = ApplyUpdate(state, state_update)
             /\ status_file' = AfterWrite(status_file, snapshot, outcome)
             /\ last_snapshot' = [outcome |-> outcome, content |-> snapshot]
             /\ pc' = "tech_lead"
             /\ UNCHANGED <<raised, failed_calls>>
    /\ UNCHANGED <<route, opinions, outcomes, arbitration, gen_prompt, artifact,
                   lessons, pushed, effects, status_faults>>
    /\ UNCHANGED <<component_vars, daemon_vars>>

\* NexusMemory.retrieve_context on the store as it is when the run starts
retrieve_context(n) ==
    IF n = 0 THEN "No prior lessons found." ELSE "### PREVIOUS LESSONS LEARNED:"

\* a Tech Lead that keeps the requested environment when call_llm fails
tech_lead_update_keeps_request(st, ok, env_decision, usage, memory_ctx) ==
    [current_status |-> "Agent: Tech Lead (Setup & Dispatch)",
     env_mode       |-> IF ok
                        THEN (IF ContainsPROD(env_decision) THEN "PROD" ELSE "DEV")
                        ELSE Get(st, "env_mode", "DEV"),
     memory_context |-> memory_ctx,
     repo_url       |-> "N/A",
     total_tokens   |-> IF ok
                        THEN update_token_usage(Get(st, "total_tokens", EmptyDict), usage)
                        ELSE Get(st, "total_tokens", EmptyDict)]

\* a Tech Lead that takes the reply of the model as the environment mode
tech_lead_update_raw_reply(st, ok, env_decision, usage, memory_ctx) ==
    [current_status |-> "Agent: Tech Lead (Setup & Dispatch)",
     env_mode       |-> IF ok THEN env_decision ELSE "DEV",
     memory_context |-> memory_ctx,
     repo_url       |-> "N/A",
     total_tokens   |-> IF ok
                        THEN update_token_usage(Get(st, "total_tokens", EmptyDict), usage)
                        ELSE Get(st, "total_tokens", EmptyDict)]

\* state_update of TechLeadAgent.execute; ok: call_llm returned
tech_lead_update(st, ok, env_decision, usage, memory_ctx) ==
    [current_status |-> "Agent: Tech Lead (Setup & Dispatch)",
     env_mode       |-> IF ok /\ ContainsPROD(env_decision) THEN "PROD" ELSE "DEV",
     memory_context |-> memory_ctx,
     repo_url       |-> "N/A",
     total_tokens   |-> IF ok
                        THEN update_token_usage(Get(st, "total_tokens", EmptyDict), usage)
                        ELSE Get(st, "total_tokens", EmptyDict)]

\* TechLeadAgent.execute
tech_lead_node ==
    /\ pc = "tech_lead"
    /\ Len(calls) < MaxCalls
    /\ trace' = Append(trace, "tech_lead")
    /\ calls' = Append(calls, "tech_lead")
    /\ effects' = Append(effects, "get_or_create_repo")
    /\ \E ok \in BOOLEAN, env_decision \in EnvReplies, usage \in CallLlmUsage :
       \E state_update \in {tech_lead_update(state, ok, env_decision, usage,
                                              retrieve_context(lessons))} :
       \E snapshot \in {stage_snapshot(state, state_update)} :
       \E outcome \in WriteOutcomes(status_faults, "stages") :
          /\ state' = ApplyUpdate(state, state_update)
          /\ failed_calls' = IF ok THEN failed_calls
                             ELSE failed_calls \cup {"tech_lead"}
          /\ status_file' = AfterWrite(status_file, snapshot, outcome)
          /\ last_snapshot' = [outcome |-> outcome, content |-> snapshot]
    /\ pc' = "dev_squad"
    /\ UNCHANGED <<route, opinions, outcomes, arbitration, gen_prompt, artifact,
                   lessons, pushed, raised, status_faults>>
    /\ UNCHANGED <<component_vars, daemon_vars>>

\* the prompt DevSquadAgent.execute builds
dev_squad_prompt(st) ==
    [instruction |-> "Write the complete Python code for the following specification.",
     includes    |-> [spec_document |-> Get(st, "spec_document", "")]]

\* state_update of DevSquadAgent.execute
dev_squad_update(st, code_content, usage) ==
    [current_status    |-> "Agent: Dev Squad (Coding)",
     file_system_state |-> "generated_by_gemini",
     total_tokens      |-> update_token_usage(Get(st, "total_tokens", EmptyDict), usage)]

\* DevSquadAgent.execute
dev_squad_node ==
    /\ pc = "dev_squad"
    /\ Len(calls) < MaxCalls
    /\ trace' = Append(trace, "dev_squad")
    /\ calls' = Append(calls, "dev_squad")
    /\ gen_prompt' = dev_squad_prompt(state)
    /\ \/ \* router.call raises: logged and re-raised
          /\ pc' = "ERROR"
          /\ raised' \in ProviderErrors
          /\ failed_calls' = failed_calls \cup {"dev_squad"}
          /\ UNCHANGED <<state, artifact, status_file, last_snapshot>>
       \/ \* the write of the generated file raises: logged and re-raised
          /\ pc' = "ERROR"
          /\ raised' = "OSError"
          /\ UNCHANGED <<state, artifact, status_file, last_snapshot, failed_calls>>
       \/ \E code_content \in CodeReplies, usage \in AnthropicRawUsage :
          \E state_update \in {dev_squad_update(state, code_content,
                                                 call_anthropic_usage(usage))} :
          \E snapshot \in {stage_snapshot(state, state_update)} :
          \E outcome \in WriteOutcomes(status_faults, "stages") :
             /\ artifact' = code_content
             /\ state' = ApplyUpdate(state, state_update)
             /\ status_file' = AfterWrite(status_file, snapshot, outcome)
             /\ last_snapshot' = [outcome |-> outcome, content |-> snapshot]
             /\ pc' = "council"
             /\ UNCHANGED <<raised, failed_calls>>
    /\ UNCHANGED <<route, opinions, outcomes, arbitration, lessons, pushed, effects,
                   status_faults>>
    /\ UNCHANGED <<component_vars, daemon_vars>>

\* the usage router.call returns with a reviewer's reply
reviewer_usage(agent_name) ==
    LET transport == transport_of(get_model_for_agent(agent_name))
    IN  usage_formatted(transport,
                        provider_usage(transport, [has_usage |-> TRUE,
                                                   prompt |-> MaxTokens,
                                                   completion |-> MaxTokens]))

\* one iteration of the reviewer loop of _gather_independent_reviews
gather_independent_reviews ==
    /\ pc = "council"
    /\ Len(calls) < MaxCalls
    /\ Len(opinions) < Len(reviewers)
    /\ LET reviewer_name == reviewers[Len(opinions) + 1][1]
           agent_name == reviewers[Len(opinions) + 1][2]
       IN  /\ trace' = IF Len(opinions) = 0 THEN Append(trace, "council") ELSE trace
           /\ calls' = Append(calls, agent_name)
           /\ \/ \* router.call raises: a default opinion is added
                 /\ opinions' = Append(opinions, ErrorOpinion(reviewer_name))
                 /\ outcomes' = Append(outcomes, [ok |-> FALSE, text |-> <<>>,
                                                   usage |-> EmptyDict])
              \/ \E response \in ReviewReplies :
                    /\ opinions' = Append(opinions,
                                          ParsedOpinion(reviewer_name, agent_name, response))
                    /\ outcomes' = Append(outcomes,
                                          [ok |-> TRUE, text |-> response,
                                           usage |-> reviewer_usage(agent_name)])
    /\ UNCHANGED <<pc, state, route, arbitration, gen_prompt, artifact, lessons,
                   pushed, effects, status_file, last_snapshot, raised, failed_calls,
                   status_faults>>
    /\ UNCHANGED <<component_vars, daemon_vars>>

\* _arbitrate_reviews whose fallback is the sum of the scores
arbitrate_reviews_sum_fallback(ops, arb) ==
    IF arb.ok
    THEN [final_score |-> extract_score(arb.text),
          usage       |-> call_anthropic_usage(arb.usage)]
    ELSE [final_score |-> SumScores(ops, 1), usage |-> EmptyDict]

\* _arbitrate_reviews: (final_score, usage) of the arbitration call
arbitrate_reviews(ops, arb) ==
    IF arb.ok
    THEN [final_score |-> extract_score(arb.text),
          usage       |-> call_anthropic_usage(arb.usage)]
    ELSE [final_score |-> average_score(ops), usage |-> EmptyDict]

\* council_update that leaves the loop counter of a rejected review alone
council_update_no_count(st, ops, final_score, usage_total) ==
    [current_status      |-> "Agent: The Council (Multi-LLM Review Complete)",
     quality_score       |-> final_score,
     council_report      |-> "report",
     feedback_loop_count |-> Get(st, "feedback_loop_count", 0),
     total_tokens        |-> update_token_usage(Get(st, "total_tokens", EmptyDict),
                                                usage_total),
     review_comments     |-> format_concerns_for_dev_squad(ops),
     previous_reviews    |-> ops]

\* state_update of CouncilAgent.execute
council_update(st, ops, final_score, usage_total) ==
    [current_status      |-> "Agent: The Council (Multi-LLM Review Complete)",
     quality_score       |-> final_score,
     council_report      |-> "report",
     feedback_loop_count |-> Get(st, "feedback_loop_count", 0) + 1,
     total_tokens        |-> update_token_usage(Get(st, "total_tokens", EmptyDict),
                                                usage_total),
     review_comments     |-> format_concerns_for_dev_squad(ops),
     previous_reviews    |-> ops]

\* outcomes of the arbitration call
ArbOutcomes ==
    [ok : {TRUE}, text : ArbReplies, usage : AnthropicRawUsage]
        \cup {[ok |-> FALSE, text |-> <<>>, usage |-> EmptyDict]}

\* the rest of CouncilAgent.execute (arbitration, approval, state update),
\* the merge of the update and the conditional edge out of "council"
council_node ==
    /\ pc = "council"
    /\ Len(calls) < MaxCalls
    /\ Len(opinions) = Len(reviewers)
    /\ calls' = Append(calls, "arbitration")
    /\ \E arb \in ArbOutcomes :
          /\ arbitration' = IF arb.ok THEN "ok" ELSE "failed"
          /\ \E res \in {arbitrate_reviews(opinions, arb)} :
             \E state_update \in {council_update(state, opinions, res.final_score,
                                                 res.usage)} :
             \E merged \in {ApplyUpdate(state, state_update)} :
             \E next_node \in {route_council(merged)} :
             \E snapshot \in {stage_snapshot(state, state_update)} :
             \E outcome \in WriteOutcomes(status_faults, "stages") :
                /\ status_file' = AfterWrite(status_file, snapshot, outcome)
                /\ last_snapshot' = [outcome |-> outcome, content |-> snapshot]
                /\ route' = next_node
                /\ pc' = CouncilEdges[next_node]
                /\ state' = merged
                /\ \/ \* approval: the lesson is archived and the files are
                      \* pushed; a failure of either is logged only
                      /\ is_approved(Get(state, "env_mode", "DEV"), res.final_score)
                      /\ effects' = effects \o <<"store_lesson", "push_to_github">>
                      /\ lessons' \in {lessons, lessons + 1}
                      /\ pushed' \in {pushed, pushed + 1}
                   \/ /\ ~is_approved(Get(state, "env_mode", "DEV"), res.final_score)
                      /\ UNCHANGED <<effects, lessons, pushed>>
    /\ opinions' = <<>>
    /\ outcomes' = <<>>
    /\ UNCHANGED <<gen_prompt, artifact, trace, raised, failed_calls, status_faults>>
    /\ UNCHANGED <<component_vars, daemon_vars>>

\* process_request after app.invoke returned: save_status_snapshot(final_state)
process_request_finish ==
    /\ daemon_pc = "process_request"
    /\ pc = "END"
    /\ \E snapshot \in {Snapshot(state)},
          outcome \in WriteOutcomes(status_faults, "process_request") :
          /\ status_file' = AfterWrite(status_file, snapshot, outcome)
          /\ last_snapshot' = [outcome |-> outcome, content |-> snapshot]
    /\ daemon_pc' = "poll"
    /\ UNCHANGED <<pc, state, route, opinions, outcomes, arbitration, gen_prompt,
                   artifact, lessons, pushed, trace, calls, effects, raised,
                   failed_calls, status_faults, request_data>>
    /\ UNCHANGED component_vars

\* the except branch of process_request: the error status is written, a
\* failure to write it is logged; run_daemon goes on
process_request_error ==
    /\ daemon_pc = "process_request"
    /\ pc = "ERROR"
    /\ \E snapshot \in {error_status(Get(request_data, "prompt", ""),
                                       Get(request_data, "env_mode", "DEV"), raised)},
          outcome \in WriteOutcomes(status_faults, "process_request") :
          /\ status_file' = AfterWrite(status_file, snapshot, outcome)
          /\ last_snapshot' = [outcome |-> outcome, content |-> snapshot]
    /\ daemon_pc' = "poll"
    /\ UNCHANGED <<pc, state, route, opinions, outcomes, arbitration, gen_prompt,
                   artifact, lessons, pushed, trace, calls, effects, raised,
                   failed_calls, status_faults, request_data>>
    /\ UNCHANGED component_vars

Next ==
    \/ product_owner_node
    \/ tech_lead_node
    \/ dev_squad_node
    \/ gather_independent_reviews
    \/ council_node
    \/ process_request_finish
    \/ process_request_error

Spec == Init /\ [][Next]_vars

\* one process_request in any session, also one where writes of status.json
\* fail
StatusInit == \E faults \in FaultPatterns : InvokedWith(faults)

StatusSpec == StatusInit /\ [][Next]_vars

\* the graph runs the next node as long as there is one
LiveSpec == Init /\ [][Next]_vars /\ WF_vars(Next)

\* the runs for requests with any env_mode
EnvSpec == EnvInit /\ [][Next]_vars

\* ------------------------------------------------------------------------
\* The review parser on its own: lines 214-216 of _gather_independent_reviews
\* applied to any reply
\* ------------------------------------------------------------------------
ParserLines ==
    { <<"SCORE:", "9", "0">>, <<"score:", "4", "0">>, <<"SCORE:", "-", "5">>,
      <<"SCORE:", "1", "5", "0">>, <<"SCORE:", LongDigitRun>>, <<"SCORE:", "sup2">>,
      <<"FINAL_SCORE:", "7", "5">>, <<"SCORE:", "weak">>, <<"2", "SCORE:", "9", "0">>,
      <<"REASONING:", "solid">>, <<"REASONING:", "fixes", "2", "bugs">>,
      <<"Note:", "REASONING:", "weak">>,
      <<"CONCERNS:", "None">>, <<"CONCERNS:", "none">>, <<"CONCERNS:", "NONE">>,
      <<"concerns:", "NONE">>,
      <<"CONCERNS:", "no", "tests", ",", "unsafe">>,
      <<"found", "3", "bugs">>, <<"the code handles every case">>, <<"prose200">>,
      <<>> }

ParserTexts == UNION {[1..n -> ParserLines] : n \in 0..MaxLines}

ParserInputs ==
    {[type |-> "str", text |-> t] : t \in ParserTexts}
        \cup {[type |-> ty] : ty \in PayloadTypes \ {"str"}}

ParserInit ==
    /\ PipelineIdle /\ MeterIdle /\ RouterIdle /\ SingletonIdle /\ GenaiIdle /\ MemoryIdle
    /\ FeedbackIdle /\ ReportIdle /\ LoopIdle
    /\ review_text \in ParserInputs
    /\ parsed = EmptyDict

\* score, reasoning and concerns of one reply
parse_review ==
    /\ parsed = EmptyDict
    /\ parsed' = [score     |-> call_extract_score(review_text),
                  reasoning |-> call_extract_reasoning(review_text),
                  concerns  |-> call_extract_concerns(review_text)]
    /\ UNCHANGED <<review_text, pipeline_vars, daemon_vars, feedback_vars, report_vars, loop_vars, meter_vars, router_vars, singleton_vars,
                   genai_vars, memory_vars>>

ParserNext == parse_review

ParserSpec == ParserInit /\ [][ParserNext]_vars

\* ------------------------------------------------------------------------
\* The usage meter on its own: the usage of three calls merged one after the
\* other into the counters of the state, in any order
\* ------------------------------------------------------------------------
\* usage dicts handed to update_token_usage: call_llm's, with and without
\* fields, and the router's
UsageRecords ==
    {EmptyDict,
     [prompt_token_count |-> MaxTokens],
     [total_token_count |-> MaxTokens],
     [prompt_tokens |-> MaxTokens, completion_tokens |-> MaxTokens,
      total_token_count |-> 2 * MaxTokens]}
        \cup {[prompt_token_count |-> a, candidates_token_count |-> b,
               total_token_count |-> a + b] : a, b \in 0..MaxTokens}

MeterInit ==
    /\ PipelineIdle /\ ParserIdle /\ RouterIdle /\ SingletonIdle /\ GenaiIdle /\ MemoryIdle
    /\ FeedbackIdle /\ ReportIdle /\ LoopIdle
    /\ incoming \in [1..3 -> UsageRecords]
    /\ applied = {}
    /\ cumulative = EmptyDict
    /\ last_merge = EmptyDict

\* new_tokens = update_token_usage(state.get("total_tokens", {}), usage)
merge_usage ==
    /\ last_merge = EmptyDict
    /\ \E i \in (1..3) \ applied :
          /\ applied' = applied \cup {i}
          /\ last_merge' = [current_usage |-> cumulative,
                            new_usage     |-> incoming[i],
                            new_tokens    |-> update_token_usage(cumulative, incoming[i])]
    /\ UNCHANGED <<incoming, cumulative>>
    /\ UNCHANGED <<pipeline_vars, daemon_vars, feedback_vars, report_vars, loop_vars, parser_vars, router_vars, singleton_vars, genai_vars,
                   memory_vars>>

\* the state takes "total_tokens" from the stage's update
store_usage ==
    /\ last_merge # EmptyDict
    /\ cumulative' = last_merge.new_tokens
    /\ last_merge' = EmptyDict
    /\ UNCHANGED <<incoming, applied>>
    /\ UNCHANGED <<pipeline_vars, daemon_vars, feedback_vars, report_vars, loop_vars, parser_vars, router_vars, singleton_vars, genai_vars,
                   memory_vars>>

MeterNext == merge_usage \/ store_usage

MeterSpec == MeterInit /\ [][MeterNext]_vars

\* ------------------------------------------------------------------------
\* One call of the router by a stage, and the merge of its usage
\* ------------------------------------------------------------------------
RouterAgents == DOMAIN AGENT_MODEL_MAP \cup {"unknown_agent"}

\* custom_config of the call: none, or the one of test_call_with_custom_config
RouterCustomConfigs == {EmptyDict, LLMConfig(GPT_5, "0.8", 1000)}

RouterOverrides == {"None", GEMINI_3_PRO, GROK_3}

\* what the provider answers: an error status, a payload without the expected
\* fields, or a text with or without usage counts
RouterReplies ==
    {[kind |-> "http_error"], [kind |-> "malformed"],
     [kind |-> "ok", has_usage |-> FALSE, prompt |-> 0, completion |-> 0]}
        \cup {[kind |-> "ok", has_usage |-> TRUE, prompt |-> a, completion |-> b] :
                 a, b \in 0..MaxTokens}

RouterInit ==
    /\ PipelineIdle /\ ParserIdle /\ MeterIdle /\ SingletonIdle /\ GenaiIdle /\ MemoryIdle
    /\ FeedbackIdle /\ ReportIdle /\ LoopIdle
    /\ request \in [agent_name : RouterAgents,
                    custom_config : RouterCustomConfigs,
                    override_model : RouterOverrides,
                    anthropic_api_key : BOOLEAN,
                    google_api_key : BOOLEAN,
                    google_sdk : BOOLEAN,
                    reply : RouterReplies]
    /\ dispatched = <<>>
    /\ requests = <<>>
    /\ result = [status |-> "none"]

\* GitHubModelsRouter.call with the transport it dispatches to
router_call ==
    /\ result.status = "none"
    /\ \E config \in {resolve_config(request.agent_name, request.custom_config,
                                      request.override_model)} :
       \E transport \in {transport_of(config.provider)} :
          /\ dispatched' = Append(dispatched, [transport |-> transport, config |-> config])
          /\ requests' = IF key_missing(transport, request)
                              \/ sdk_missing(transport, request)
                         THEN requests
                         ELSE Append(requests,
                                     [transport   |-> transport,
                                      model       |-> config.provider,
                                      temperature |-> config.temperature,
                                      max_tokens  |-> config.max_tokens])
          /\ result' = transport_result(transport, request)
    /\ UNCHANGED request
    /\ UNCHANGED <<pipeline_vars, daemon_vars, feedback_vars, report_vars, loop_vars, parser_vars, meter_vars, singleton_vars, genai_vars,
                   memory_vars>>

\* the stage merges the usage of the call into the counters of the state
merge_call_usage ==
    /\ result.status = "ok"
    /\ cumulative = EmptyDict
    /\ cumulative' = update_token_usage(EmptyDict, result.usage)
    /\ UNCHANGED <<incoming, applied, last_merge>>
    /\ UNCHANGED <<pipeline_vars, daemon_vars, feedback_vars, report_vars, loop_vars, parser_vars, router_vars, singleton_vars, genai_vars,
                   memory_vars>>

RouterNext == router_call \/ merge_call_usage

RouterSpec == RouterInit /\ [][RouterNext]_vars

\* ------------------------------------------------------------------------
\* get_llm_router called from several threads; a step is one statement
\* ------------------------------------------------------------------------
Threads == 1..MaxThreads

SingletonInit ==
    /\ PipelineIdle /\ ParserIdle /\ MeterIdle /\ RouterIdle /\ GenaiIdle /\ MemoryIdle
    /\ FeedbackIdle /\ ReportIdle /\ LoopIdle
    /\ router_instance = 0
    /\ router_lock = 0
    /\ thread_pc = [t \in Threads |-> "idle"]
    /\ thread_ret = [t \in Threads |-> 0]
    /\ constructed = 0

\* if _router_instance is None:   (outside the lock)
first_check(t) ==
    /\ thread_pc[t] = "idle"
    /\ thread_pc' = [thread_pc EXCEPT ![t] = IF router_instance = 0 THEN "acquire"
                                              ELSE "return"]
    /\ UNCHANGED <<router_instance, router_lock, thread_ret, constructed>>

\* with _router_lock:
acquire_lock(t) ==
    /\ thread_pc[t] = "acquire"
    /\ router_lock = 0
    /\ router_lock' = t
    /\ thread_pc' = [thread_pc EXCEPT ![t] = "locked"]
    /\ UNCHANGED <<router_instance, thread_ret, constructed>>

\* the statement under the lock without the second test
second_check_always_construct(t) ==
    /\ thread_pc[t] = "locked"
    /\ thread_pc' = [thread_pc EXCEPT ![t] = "construct"]
    /\ UNCHANGED <<router_instance, router_lock, thread_ret, constructed>>

\* if _router_instance is None:   (under the lock)
second_check(t) ==
    /\ thread_pc[t] = "locked"
    /\ thread_pc' = [thread_pc EXCEPT ![t] = IF router_instance = 0 THEN "construct"
                                              ELSE "release"]
    /\ UNCHANGED <<router_instance, router_lock, thread_ret, constructed>>

\* _router_instance = GitHubModelsRouter(); the constructor raises when
\* GITHUB_TOKEN is not set
construct_router(t) ==
    /\ thread_pc[t] = "construct"
    /\ \/ /\ constructed' = constructed + 1
          /\ router_instance' = constructed + 1
          /\ thread_pc' = [thread_pc EXCEPT ![t] = "release"]
       \/ /\ thread_pc' = [thread_pc EXCEPT ![t] = "release_raise"]
          /\ UNCHANGED <<router_instance, constructed>>
    /\ UNCHANGED <<router_lock, thread_ret>>

\* the end of the with block, left normally or by the exception
release_lock(t) ==
    /\ thread_pc[t] \in {"release", "release_raise"}
    /\ router_lock' = 0
    /\ thread_pc' = [thread_pc EXCEPT ![t] = IF thread_pc[t] = "release" THEN "return"
                                              ELSE "idle"]
    /\ UNCHANGED <<router_instance, thread_ret, constructed>>

\* return _router_instance
return_instance(t) ==
    /\ thread_pc[t] = "return"
    /\ thread_ret' = [thread_ret EXCEPT ![t] = router_instance]
    /\ thread_pc' = [thread_pc EXCEPT ![t] = "idle"]
    /\ UNCHANGED <<router_instance, router_lock, constructed>>

get_llm_router(t) ==
    \/ first_check(t)
    \/ acquire_lock(t)
    \/ second_check(t)
    \/ construct_router(t)
    \/ release_lock(t)
    \/ return_instance(t)

SingletonNext ==
    /\ \E t \in Threads : get_llm_router(t)
    /\ UNCHANGED <<pipeline_vars, daemon_vars, feedback_vars, report_vars, loop_vars, parser_vars, meter_vars, router_vars, genai_vars,
                   memory_vars>>

SingletonSpec == SingletonInit /\ [][SingletonNext]_vars

\* ------------------------------------------------------------------------
\* _init_google_genai called from several threads that share one router (the
\* singleton of get_llm_router); a step is one statement
\* ------------------------------------------------------------------------
GenaiInit ==
    /\ PipelineIdle /\ ParserIdle /\ MeterIdle /\ RouterIdle /\ SingletonIdle
    /\ MemoryIdle /\ FeedbackIdle /\ ReportIdle /\ LoopIdle
    /\ google_genai = 0
    /\ google_key \in BOOLEAN
    /\ google_sdk \in BOOLEAN
    /\ genai_pc = [t \in Threads |-> "idle"]
    /\ genai_configured = 0

\* if self._google_genai is None:
genai_check(t) ==
    /\ genai_pc[t] = "idle"
    /\ genai_pc' = [genai_pc EXCEPT ![t] = IF google_genai = 0 THEN "key" ELSE "return"]
    /\ UNCHANGED <<google_genai, google_key, google_sdk, genai_configured>>

\* if not self.google_api_key: raise ValueError
genai_key_check(t) ==
    /\ genai_pc[t] = "key"
    /\ genai_pc' = [genai_pc EXCEPT ![t] = IF google_key THEN "import" ELSE "raised"]
    /\ UNCHANGED <<google_genai, google_key, google_sdk, genai_configured>>

\* import google.generativeai as genai; genai.configure(api_key=...)
genai_configure(t) ==
    /\ genai_pc[t] = "import"
    /\ IF google_sdk
       THEN /\ genai_configured' = genai_configured + 1
            /\ genai_pc' = [genai_pc EXCEPT ![t] = "assign"]
       ELSE /\ genai_pc' = [genai_pc EXCEPT ![t] = "raised"]
            /\ UNCHANGED genai_configured
    /\ UNCHANGED <<google_genai, google_key, google_sdk>>

\* self._google_genai = genai
genai_assign(t) ==
    /\ genai_pc[t] = "assign"
    /\ google_genai' = 1
    /\ genai_pc' = [genai_pc EXCEPT ![t] = "return"]
    /\ UNCHANGED <<google_key, google_sdk, genai_configured>>

\* return self._google_genai
genai_return(t) ==
    /\ genai_pc[t] = "return"
    /\ genai_pc' = [genai_pc EXCEPT ![t] = "done"]
    /\ UNCHANGED <<google_genai, google_key, google_sdk, genai_configured>>

init_google_genai(t) ==
    \/ genai_check(t)
    \/ genai_key_check(t)
    \/ genai_configure(t)
    \/ genai_assign(t)
    \/ genai_return(t)

GenaiNext ==
    /\ \E t \in Threads : init_google_genai(t)
    /\ UNCHANGED <<pipeline_vars, daemon_vars, feedback_vars, report_vars, loop_vars, parser_vars, meter_vars, router_vars, singleton_vars,
                   memory_vars>>

GenaiSpec == GenaiInit /\ [][GenaiNext]_vars

\* ------------------------------------------------------------------------
\* The lesson store on its own: one NexusMemory instance, its file, and the
\* calls store_lesson, retrieve_context, delete_lesson and a re-opening of
\* the file by a new instance.  A text is the sequence of its
\* whitespace-delimited words.
\* ------------------------------------------------------------------------
\* str.lower on a word
Lower(w) ==
    CASE w = "Feature" -> "feature"
      [] w = "Implementation" -> "implementation"
      [] w = "Python" -> "python"
      [] w = "Testing" -> "testing"
      [] OTHER -> w

\* set(text.lower().split())
WordsOf(text) == {Lower(text[i]) : i \in 1..Len(text)}

\* len(query_words & (topic_words | context_words))
matches(lesson, query) ==
    Cardinality(WordsOf(query) \cap (WordsOf(lesson.topic) \cup WordsOf(lesson.context)))

\* the candidates without the test matches > 0
relevant_lessons_unfiltered(lesson_list, query) ==
    lesson_list

\* the lessons appended to relevant_lessons, in the order of the store
relevant_lessons(lesson_list, query) ==
    LET Matching(l) == matches(l, query) > 0 IN SelectSeq(lesson_list, Matching)

RECURSIVE sort_ascending(_, _, _)
\* the candidates by increasing count
sort_ascending(candidates, query, m) ==
    LET With(l) == matches(l, query) = m
    IN  IF m = 0 THEN SelectSeq(candidates, With)
        ELSE sort_ascending(candidates, query, m - 1) \o SelectSeq(candidates, With)

RECURSIVE sort_by_matches(_, _, _)
\* relevant_lessons.sort(key=lambda x: x[1], reverse=True): a stable sort, so
\* candidates of equal count keep the order of the store; m is the highest
\* count possible
sort_by_matches(candidates, query, m) ==
    LET With(l) == matches(l, query) = m
    IN  IF m = 0 THEN SelectSeq(candidates, With)
        ELSE SelectSeq(candidates, With) \o sort_by_matches(candidates, query, m - 1)

\* seq[:top_k] for top_k >= 0
Take(seq, top_k) == SubSeq(seq, 1, Min(top_k, Len(seq)))

\* NexusMemory._retrieve_with_keywords
retrieve_with_keywords(lesson_list, query, top_k) ==
    LET top_lessons ==
            Take(sort_by_matches(relevant_lessons(lesson_list, query), query,
                                 Cardinality(WordsOf(query))),
                 top_k)
    IN  IF top_lessons = <<>>
        THEN [path |-> "keywords", text |-> "No prior lessons found for this topic.",
              lines |-> <<>>]
        ELSE [path  |-> "keywords", text |-> "### PREVIOUS LESSONS LEARNED:",
              lines |-> [i \in 1..Len(top_lessons) |->
                            [topic    |-> top_lessons[i].topic,
                             solution |-> top_lessons[i].solution]]]

\* lessons_with_embeddings
lessons_with_embeddings(lesson_list) ==
    LET Embedded(l) == "embedding" \in DOMAIN l IN SelectSeq(lesson_list, Embedded)

RECURSIVE sort_by_similarity(_, _, _)
\* similarities.sort(key=lambda x: x[1], reverse=True); similarity gives the
\* cosine of each candidate with the query as a level in 0..m
sort_by_similarity(candidates, similarity, m) ==
    LET idx == [i \in 1..Len(candidates) |-> i]
        At(i) == similarity[i] = m
        here == SelectSeq(idx, At)
        found == [j \in 1..Len(here) |->
                     [lesson |-> candidates[here[j]], score |-> m]]
    IN  IF m = 0 THEN found
        ELSE found \o sort_by_similarity(candidates, similarity, m - 1)

\* NexusMemory._retrieve_with_embeddings; query_ok: the embedding of the query
\* could be computed
retrieve_with_embeddings(lesson_list, query, top_k, query_ok, similarity) ==
    LET candidates == lessons_with_embeddings(lesson_list)
        top_lessons == Take(sort_by_similarity(candidates, similarity, 1), top_k)
    IN  IF ~query_ok \/ candidates = <<>>
        THEN retrieve_with_keywords(lesson_list, query, top_k)
        ELSE IF top_lessons = <<>>
        THEN [path |-> "embeddings", text |-> "No relevant lessons found.",
              lines |-> <<>>]
        ELSE [path  |-> "embeddings", text |-> "### PREVIOUS LESSONS LEARNED:",
              lines |-> [i \in 1..Len(top_lessons) |->
                            [topic      |-> top_lessons[i].lesson.topic,
                             similarity |-> top_lessons[i].score,
                             solution   |-> top_lessons[i].lesson.solution]]]

\* NexusMemory.retrieve_context
memory_retrieve_context(lesson_list, use_embeddings, query, top_k, query_ok, similarity) ==
    IF lesson_list = <<>>
    THEN [path |-> "none", text |-> "No prior lessons found.", lines |-> <<>>]
    ELSE IF use_embeddings
    THEN retrieve_with_embeddings(lesson_list, query, top_k, query_ok, similarity)
    ELSE retrieve_with_keywords(lesson_list, query, top_k)

\* the lesson dict of store_lesson; embedded: _compute_embedding returned a
\* vector, which stands here as the text it was computed from
new_lesson(n, topic, context, outcome, solution, embedded) ==
    LET lesson == [id |-> n, topic |-> topic, context |-> context,
                   outcome |-> outcome, solution |-> solution, timestamp |-> n]
    IN  IF embedded THEN Merge(lesson, [embedding |-> topic \o context]) ELSE lesson

\* the list without the lesson of that id and without those stored after it
remove_lesson_and_later(lesson_list, lesson_id) ==
    LET Before(l) == l.id < lesson_id IN SelectSeq(lesson_list, Before)

\* [l for l in self.data["lessons"] if l.get("id") != lesson_id]
remove_lesson(lesson_list, lesson_id) ==
    LET Other(l) == l.id # lesson_id IN SelectSeq(lesson_list, Other)

\* a dump that loses the last lesson
json_dump_truncated(lesson_list) ==
    [kind    |-> "json",
     objects |-> [i \in 1..(Len(lesson_list) - 1) |->
                     {<<k, lesson_list[i][k]>> : k \in DOMAIN lesson_list[i]}]]

\* json.dump(self.data, f): every lesson becomes an object of key/value pairs
json_dump(lesson_list) ==
    [kind    |-> "json",
     objects |-> [i \in 1..Len(lesson_list) |->
                     {<<k, lesson_list[i][k]>> : k \in DOMAIN lesson_list[i]}]]

\* json.load(f) of a file json_dump wrote
json_load(file) ==
    [i \in 1..Len(file.objects) |->
        [k \in {p[1] : p \in file.objects[i]} |->
            (CHOOSE p \in file.objects[i] : p[1] = k)[2]]]

\* NexusMemory._load_memory: no file, or a file that is not JSON, gives an
\* empty list
load_memory(file) ==
    IF file.kind = "json" THEN json_load(file) ELSE <<>>

\* what NexusMemory._save_memory leaves in the file: the dump, or on OSError
\* (logged) the old file if open failed, a truncated one if the write failed
save_memory(file, lesson_list) ==
    {json_dump(lesson_list), file, [kind |-> "corrupt"]}

MaxLessons == 2

MaxTopK == 1

\* the lessons a caller stores: two of the Council's, and one without a topic
\* whose context shares a word with theirs
StoreArguments ==
    {[topic |-> <<"Feature", "Implementation">>, context |-> <<"build", "api">>,
      solution |-> "Multi-LLM review: 80/100"],
     [topic |-> <<"Feature", "Implementation">>, context |-> <<"build", "api">>,
      solution |-> "Multi-LLM review: 90/100"],
     [topic |-> <<>>, context |-> <<"feature", "testing">>, solution |-> "Use Jest"]}

\* queries of retrieve_context: the topics stored and one that shares no word
Queries ==
    {a.topic : a \in StoreArguments} \cup {<<"completely", "different", "topic">>}

MemoryInit ==
    /\ PipelineIdle /\ ParserIdle /\ MeterIdle /\ RouterIdle /\ SingletonIdle
    /\ GenaiIdle /\ FeedbackIdle /\ ReportIdle /\ LoopIdle
    /\ mem_data = <<>>
    /\ mem_file = [kind |-> "absent"]
    /\ mem_clock = 0
    /\ mem_embed \in BOOLEAN
    /\ mem_write_failed = FALSE
    /\ mem_last = [op |-> "none"]

\* NexusMemory.store_lesson
store_lesson ==
    /\ mem_clock < MaxLessons
    /\ \E a \in StoreArguments, embedded \in {mem_embed, FALSE} :
       \E lesson \in {new_lesson(mem_clock + 1, a.topic, a.context, "Success",
                                 a.solution, embedded)} :
       \E lesson_list \in {Append(mem_data, lesson)} :
       \E written \in save_memory(mem_file, lesson_list) :
          /\ mem_data' = lesson_list
          /\ mem_file' = written
          /\ mem_write_failed' = (mem_write_failed \/ written # json_dump(lesson_list))
          /\ mem_last' = [op |-> "store", lesson |-> lesson, ret |-> lesson.id]
    /\ mem_clock' = mem_clock + 1
    /\ UNCHANGED mem_embed

\* NexusMemory.retrieve_context(query, top_k)
retrieve_lessons ==
    /\ \E query \in Queries, top_k \in 1..MaxTopK, query_ok \in {mem_embed, FALSE} :
       \E similarity \in [1..Len(lessons_with_embeddings(mem_data)) ->
                             IF query_ok THEN 0..1 ELSE {0}] :
          mem_last' = [op     |-> "retrieve",
                       query  |-> query,
                       top_k  |-> top_k,
                       stored |-> IF mem_last.op = "store" THEN <<mem_last.lesson>>
                                  ELSE <<>>,
                       ret    |-> memory_retrieve_context(mem_data, mem_embed, query,
                                                          top_k, query_ok, similarity)]
    /\ UNCHANGED <<mem_data, mem_file, mem_clock, mem_embed, mem_write_failed>>

\* NexusMemory.delete_lesson(lesson_id)
delete_lesson ==
    /\ \E lesson_id \in 1..MaxLessons :
       \E lesson_list \in {remove_lesson(mem_data, lesson_id)} :
          /\ mem_data' = lesson_list
          /\ IF Len(lesson_list) < Len(mem_data)
             THEN \E written \in save_memory(mem_file, lesson_list) :
                     /\ mem_file' = written
                     /\ mem_write_failed' =
                            (mem_write_failed \/ written # json_dump(lesson_list))
                     /\ mem_last' = [op |-> "delete", lesson_id |-> lesson_id,
                                     ret |-> TRUE, data_before |-> mem_data,
                                     file_before |-> mem_file]
             ELSE /\ mem_last' = [op |-> "delete", lesson_id |-> lesson_id,
                                  ret |-> FALSE, data_before |-> mem_data,
                                  file_before |-> mem_file]
                  /\ UNCHANGED <<mem_file, mem_write_failed>>
    /\ UNCHANGED <<mem_clock, mem_embed>>

\* NexusMemory(memory_path): a new instance loads the file
open_memory ==
    /\ mem_last.op \in {"store", "delete"}
    /\ mem_data' = load_memory(mem_file)
    /\ mem_last' = [op |-> "open", data_before |-> mem_data]
    /\ UNCHANGED <<mem_file, mem_clock, mem_embed, mem_write_failed>>

MemoryNext ==
    /\ \/ store_lesson
       \/ retrieve_lessons
       \/ delete_lesson
       \/ open_memory
    /\ UNCHANGED <<pipeline_vars, daemon_vars, feedback_vars, report_vars, loop_vars, parser_vars, meter_vars, router_vars, singleton_vars,
                   genai_vars>>

MemorySpec == MemoryInit /\ [][MemoryNext]_vars

\* ------------------------------------------------------------------------
\* The feedback formatter on its own: _format_concerns_for_dev_squad applied
\* to lists of opinions
\* ------------------------------------------------------------------------
\* longest list of opinions passed
MaxOpinions == 3

\* opinions as _gather_independent_reviews builds them: without a concern,
\* with two, and the default one of a failed review
FeedbackOpinions ==
    {ParsedOpinion("GPT-5", "council_gpt", ReviewGood),
     ParsedOpinion("Gemini", "council_gemini", ReviewBad),
     ParsedOpinion("Claude", "council_claude", ReviewGood),
     ErrorOpinion("Claude")}

OpinionLists ==
    UNION {[1..n -> FeedbackOpinions] : n \in 0..MaxOpinions}

FeedbackInit ==
    /\ PipelineIdle /\ ParserIdle /\ MeterIdle /\ RouterIdle /\ SingletonIdle
    /\ GenaiIdle /\ MemoryIdle /\ ReportIdle /\ LoopIdle
    /\ fb_opinions \in OpinionLists
    /\ fb_result = [returned |-> FALSE]

\* review_comments = self._format_concerns_for_dev_squad(opinions)
format_feedback ==
    /\ ~fb_result.returned
    /\ fb_result' = [returned |-> TRUE,
                     text |-> format_concerns_for_dev_squad(fb_opinions)]
    /\ UNCHANGED fb_opinions
    /\ UNCHANGED <<pipeline_vars, daemon_vars, parser_vars, meter_vars, router_vars,
                   singleton_vars, genai_vars, memory_vars, report_vars, loop_vars>>

FeedbackNext == format_feedback

FeedbackSpec == FeedbackInit /\ [][FeedbackNext]_vars

\* ------------------------------------------------------------------------
\* The review report (agents/council.py, _generate_report), generated by
\* successive reviews of one run
\* ------------------------------------------------------------------------
\* most reviews whose reports are followed
MaxReviews == 2

\* the opinions one review can gather: each reviewer's reply is good or bad,
\* or its call fails
ReviewOpinions ==
    {<<a, b, c>> :
        a \in {ParsedOpinion("GPT-5", "council_gpt", ReviewGood),
                ParsedOpinion("GPT-5", "council_gpt", ReviewBad),
                ErrorOpinion("GPT-5")},
        b \in {ParsedOpinion("Gemini", "council_gemini", ReviewGood),
                ParsedOpinion("Gemini", "council_gemini", ReviewBad),
                ErrorOpinion("Gemini")},
        c \in {ParsedOpinion("Claude", "council_claude", ReviewGood),
                ParsedOpinion("Claude", "council_claude", ReviewBad),
                ErrorOpinion("Claude")}}

\* change = prev_score - op.score
score_change_reversed(op_score, prev_score) == prev_score - op_score

\* change = op.score - prev_score
score_change(op_score, prev_score) == op_score - prev_score

\* f"{change:+d}": the sign, always written, and the magnitude
format_signed(change) ==
    <<IF change >= 0 THEN "+" ELSE "-", IF change >= 0 THEN change ELSE 0 - change>>

\* the icon of a change
change_icon(change) ==
    IF change > 0 THEN "up" ELSE IF change < 0 THEN "down" ELSE "same"

\* next((p for p in previous_reviews if p.get('reviewer') == op.reviewer), None):
\* the positions of the matching reviews
PrevReviews(previous_reviews, op) ==
    {k \in 1..Len(previous_reviews) : previous_reviews[k].reviewer = op.reviewer}

RECURSIVE ChangeLines(_, _, _)
\* the score changes, one line for each opinion whose reviewer has an
\* earlier review
ChangeLines(ops, i, previous_reviews) ==
    IF i > Len(ops) THEN <<>>
    ELSE LET op == ops[i]
             found == PrevReviews(previous_reviews, op)
         IN  (IF found = {} THEN <<>>
              ELSE LET prev_review ==
                           previous_reviews[CHOOSE k \in found : \A m \in found : k <= m]
                       prev_score == prev_review.score
                       change == score_change(op.score, prev_score)
                   IN  << <<op.reviewer, ":", prev_score, "->", op.score>>
                              \o format_signed(change) \o <<change_icon(change)>> >>)
             \o ChangeLines(ops, i + 1, previous_reviews)

\* the report: a sequence of lines, each a sequence of pieces
generate_report(ops, final_score, arbitration_reasoning, previous_reviews) ==
    << <<"====">>, <<"COUNCIL MULTI-LLM REVIEW REPORT">>, <<"====">>, <<>>,
       <<"INDIVIDUAL REVIEWS:">>, <<"----">>,
       <<"Reviewer", "Model", "Score", "Concerns">>, <<"----">> >>
    \o [i \in 1..Len(ops) |->
           <<ops[i].reviewer, ops[i].model, ops[i].score, "/100", Len(ops[i].concerns)>>]
    \o << <<"----">>, <<>>, <<"DETAILED OPINIONS:">>, <<"----">> >>
    \o [i \in 1..Len(ops) |->
           <<ops[i].reviewer, "(", ops[i].model, "):", "Score:", ops[i].score, "/100",
             "Reasoning:", ops[i].reasoning, "Concerns:",
             IF ops[i].concerns # <<>> THEN ops[i].concerns ELSE "None">>]
    \o (IF previous_reviews # <<>>
        THEN << <<>>, <<"----">>, <<"AMELIORATIONS / CHANGEMENTS:">>, <<"----">> >>
                \o ChangeLines(ops, 1, previous_reviews)
        ELSE <<>>)
    \o << <<>>, <<"----">>, <<"FINAL ARBITRATION (Claude):">>, <<"----">>,
          <<"Final Score:", final_score, "/100">>,
          <<"Reasoning:", arbitration_reasoning>>, <<"====">>, <<>> >>

ReportInit ==
    /\ PipelineIdle /\ ParserIdle /\ MeterIdle /\ RouterIdle /\ SingletonIdle
    /\ GenaiIdle /\ MemoryIdle /\ FeedbackIdle /\ LoopIdle
    /\ rep_reviews = <<>>
    /\ rep_call = [returned |-> FALSE]
    /\ rep_round = 0

\* one review (CouncilAgent.execute): the report is generated from the
\* opinions gathered and the reviews kept by the review before, and the
\* opinions become the reviews kept for the next one
council_report ==
    /\ rep_round < MaxReviews
    /\ \E ops \in ReviewOpinions :
         \E final_score \in {average_score(ops)} :
           /\ rep_call' = [returned |-> TRUE,
                           opinions |-> ops,
                           previous_reviews |-> rep_reviews,
                           report |-> generate_report(ops, final_score,
                                                      "Average of reviewer scores",
                                                      rep_reviews)]
           /\ rep_reviews' = ops
    /\ rep_round' = rep_round + 1
    /\ UNCHANGED <<pipeline_vars, daemon_vars, parser_vars, meter_vars, router_vars,
                   singleton_vars, genai_vars, memory_vars, feedback_vars, loop_vars>>

ReportNext == council_report

ReportSpec == ReportInit /\ [][ReportNext]_vars

\* ------------------------------------------------------------------------
\* The loop of the daemon over the request file (nexus_daemon.py, run_daemon)
\* ------------------------------------------------------------------------
\* what archive_request can meet: both steps done, or an exception of the
\* open / json.dump or of os.remove, which it logs
ArchiveOutcomes == {"archived", "open failed", "remove failed"}

LoopInit ==
    /\ PipelineIdle /\ ParserIdle /\ MeterIdle /\ RouterIdle /\ SingletonIdle
    /\ GenaiIdle /\ MemoryIdle /\ FeedbackIdle /\ ReportIdle
    /\ loop_pc = "load_request"
    /\ loop_request = <<>>
    /\ request_file = <<>>
    /\ processed_file = <<>>
    /\ processed_count = [r \in 1..MaxRequests |-> 0]
    /\ loop_written = 0
    /\ loop_polls = 0

LoopOthersUnchanged ==
    UNCHANGED <<pipeline_vars, daemon_vars, parser_vars, meter_vars, router_vars,
                singleton_vars, genai_vars, memory_vars, feedback_vars, report_vars>>

\* the dashboard submits a request: request.json is written, over a request
\* still there; the timestamp tells the requests apart
write_request ==
    /\ loop_pc # "stopped"
    /\ loop_written < MaxRequests
    /\ loop_written' = loop_written + 1
    /\ request_file' = <<[prompt |-> "build a todo app", env_mode |-> "DEV",
                          timestamp |-> loop_written + 1]>>
    /\ UNCHANGED <<loop_pc, loop_request, processed_file, processed_count, loop_polls>>
    /\ LoopOthersUnchanged

\* request_data = load_request(); if request_data: ... else sleep
load_request ==
    /\ loop_pc = "load_request"
    /\ loop_polls < MaxPolls
    /\ loop_polls' = loop_polls + 1
    /\ loop_request' = request_file
    /\ loop_pc' = IF request_file # <<>> THEN "archive_request" ELSE "sleep"
    /\ UNCHANGED <<request_file, processed_file, processed_count, loop_written>>
    /\ LoopOthersUnchanged

\* archive_request(request_data)
archive_request ==
    /\ loop_pc = "archive_request"
    /\ \E outcome \in ArchiveOutcomes :
         /\ processed_file' =
                IF outcome = "open failed" THEN processed_file
                ELSE <<[request |-> loop_request[1], processed_at |-> loop_polls]>>
         /\ request_file' = IF outcome = "archived" THEN <<>> ELSE request_file
    /\ loop_pc' = "process_request"
    /\ UNCHANGED <<loop_request, processed_count, loop_written, loop_polls>>
    /\ LoopOthersUnchanged

\* process_request(request_data)
loop_process_request ==
    /\ loop_pc = "process_request"
    /\ processed_count' =
           [processed_count EXCEPT ![loop_request[1].timestamp] = @ + 1]
    /\ loop_pc' = "sleep"
    /\ UNCHANGED <<loop_request, request_file, processed_file, loop_written, loop_polls>>
    /\ LoopOthersUnchanged

\* time.sleep(POLL_INTERVAL)
loop_sleep ==
    /\ loop_pc = "sleep"
    /\ loop_pc' = "load_request"
    /\ UNCHANGED <<loop_request, request_file, processed_file, processed_count,
                   loop_written, loop_polls>>
    /\ LoopOthersUnchanged

LoopNext ==
    \/ write_request
    \/ load_request
    \/ archive_request
    \/ loop_process_request
    \/ loop_sleep

LoopSpec == LoopInit /\ [][LoopNext]_vars

\* ------------------------------------------------------------------------
\* Properties
\* ------------------------------------------------------------------------
RECURSIVE Count(_, _)
\* number of occurrences of x in the sequence seq
Count(seq, x) ==
    IF Len(seq) = 0 THEN 0
    ELSE (IF Head(seq) = x THEN 1 ELSE 0) + Count(Tail(seq), x)

Last(seq) == seq[Len(seq)]

\* a Review has completed and its transition has been taken
Reviewed == route # "none"

\* the threshold the environment mode selects
ThresholdOf(env) ==
    CASE env = "DEV" -> 75 [] env = "PROD" -> 95

\* C1: in the transition out of Review, a feedback-loop counter above the
\* configured maximum leads to FailedSafety (and the end of the run) for
\* every quality score and every environment mode.
C1_LoopBoundFirst ==
    (Reviewed /\ state.feedback_loop_count > max_feedback_loops)
        => (route = "failed" /\ pc = "END")

\* DEV, loop count 6, maximum 5, score 99: FailedSafety
C1_Witness ==
    /\ route = "failed"
    /\ state.env_mode = "DEV"
    /\ state.feedback_loop_count = 6
    /\ state.quality_score = 99

\* C2: a run whose transition out of Review is FailedSafety has not invoked
\* the push to the repository.
C2_NoPushOnFailedSafety ==
    route = "failed" => \A i \in 1..Len(effects) : effects[i] # "push_to_github"

\* C3: with the loop counter within the maximum, the transition out of
\* Review is Approved exactly when the score is strictly greater than the
\* threshold of the environment mode (DEV 75, PROD 95), and Generate
\* otherwise.
C3_ThresholdRouting ==
    (Reviewed /\ state.feedback_loop_count <= max_feedback_loops)
        => /\ state.env_mode \in {"DEV", "PROD"}
           /\ route = (IF state.quality_score > ThresholdOf(state.env_mode)
                       THEN "approved" ELSE "rejected")
           /\ route = "approved" => pc = "END"
           /\ route = "rejected" => pc \in {"dev_squad", "council", "ERROR"}

\* a score equal to the DEV threshold loops back to Generate
C3_Witness ==
    /\ route = "rejected"
    /\ pc = "dev_squad"
    /\ state.env_mode = "DEV"
    /\ state.quality_score = 75
    /\ state.feedback_loop_count = 1

\* C4: the feedback-loop counter equals the number of completed Review
\* executions, whatever the scores were.
C4_LoopCountIsReviews ==
    state.feedback_loop_count = Count(calls, "arbitration")

\* three reviews completed, the last one rejected
C4_Witness ==
    /\ Count(calls, "arbitration") = 3
    /\ route = "rejected"
    /\ pc = "council"

Terminated == pc = "ERROR" \/ (pc = "END" /\ route \in {"approved", "failed"})

\* C5: every run terminates: it ends in Approved or FailedSafety unless a
\* stage call raised (ERROR); the Review-to-Generate loop cannot repeat
\* forever, whatever the scores.
C5_Termination == <>Terminated

\* approved at the third review, after two rejections
C5_Witness ==
    /\ pc = "END"
    /\ route = "approved"
    /\ state.feedback_loop_count = 3

\* the node at position i of a run
StageAt(i) ==
    IF i = 1 THEN "product_owner"
    ELSE IF i = 2 THEN "tech_lead"
    ELSE IF i % 2 = 1 THEN "dev_squad" ELSE "council"

\* C6: the stages execute one at a time in the order Spec, Setup, then
\* Generate and Review in alternation; Generate is re-entered only from a
\* rejected Review and no stage executes after Approved or FailedSafety.
C6_StageOrder ==
    /\ [](\A i \in 1..Len(trace) : trace[i] = StageAt(i))
    /\ [][Len(trace') <= Len(trace) + 1]_vars
    /\ [][(trace' # trace /\ Len(trace) > 2 /\ Last(trace') = "dev_squad")
             => route = "rejected"]_vars
    /\ [][(route \in {"approved", "failed"}) => (trace' = trace)]_vars

\* a run with two Generate/Review rounds that has ended
C6_Witness ==
    /\ pc = "END"
    /\ trace = <<"product_owner", "tech_lead", "dev_squad", "council",
                 "dev_squad", "council">>

\* C7: the prompt of a Generate that runs after a rejected Review includes
\* the previous artifact and the Council's review feedback; the prompt of
\* the first Generate includes the specification only.
C7_RevisionPromptHasFeedback ==
    /\ (pc = "council" /\ route = "none")
          => DOMAIN gen_prompt.includes = {"spec_document"}
    /\ (pc = "council" /\ route = "rejected")
          => /\ "previous_code" \in DOMAIN gen_prompt.includes
             /\ "review_comments" \in DOMAIN gen_prompt.includes
             /\ gen_prompt.includes.review_comments = state.review_comments

\* C8: after every Generate the state holds previous_code equal to the
\* artifact just generated.
C8_PreviousCodeIsArtifact ==
    pc = "council"
        => ("previous_code" \in DOMAIN state /\ state.previous_code = artifact)

ReviewerNames == <<"GPT-5", "Gemini", "Claude">>

\* the opinion that stands for a failed reviewer call
IsSentinel(op) ==
    op.model = "error" /\ op.score = 50 /\ op.concerns = <<<<"Review error">>>>

C10_ArbitrationFallback ==
    [][(calls' = Append(calls, "arbitration") /\ arbitration' = "failed")
          => LET total == opinions[1].score + opinions[2].score + opinions[3].score
                 q == state'.quality_score
             IN  /\ 3 * q <= total
                 /\ total < 3 * q + 3
                 /\ state'.total_tokens = state.total_tokens
                 /\ state'.feedback_loop_count = state.feedback_loop_count + 1
                 /\ state'.previous_reviews = opinions
                 /\ route' \in {"approved", "rejected", "failed"}
                 /\ pc' \in {"END", "dev_squad"}]_vars

\* two sentinels (50, 50) and one review of 90: floor(190 / 3) = 63
C10_Witness ==
    /\ arbitration = "failed"
    /\ state.quality_score = 63
    /\ Count(calls, "arbitration") >= 1
    /\ pc = "dev_squad"

\* ------------------------------------------------------------------------
\* Properties of the review parser
\* ------------------------------------------------------------------------
\* the three extractions have been applied to a text
ParsedText == parsed # EmptyDict /\ review_text.type = "str"

\* no line of the text holds a SCORE: or FINAL_SCORE: marker
NoScoreMarker(text) == \A i \in 1..Len(text) : ~HasScoreMarker(text[i])

\* number of characters before piece j of line i of the text
OffsetOf(text, i, j) ==
    TextChars(text, i - 1) + CharsUpTo(text[i], j) - PieceLen(text[i][j])

IsConcernsNone(line) ==
    line \in {<<"CONCERNS:", "None">>, <<"CONCERNS:", "none">>, <<"CONCERNS:", "NONE">>}

\* C14: for every response text containing a line CONCERNS: None the parsed
\* concerns list is empty.
C14_ConcernsNoneIsEmpty ==
    (ParsedText /\ \E i \in 1..Len(review_text.text) : IsConcernsNone(review_text.text[i]))
        => parsed.concerns = <<>>

\* C14 as amended: when the first line that contains a CONCERNS: marker reads
\* CONCERNS: None, the parsed concerns list is empty.
C14_FirstConcernsNoneIsEmpty ==
    (/\ ParsedText
     /\ \E i \in 1..Len(review_text.text) :
           /\ IsConcernsNone(review_text.text[i])
           /\ \A k \in 1..(i - 1) : ~HasConcernsMarker(review_text.text[k]))
        => parsed.concerns = <<>>

\* CONCERNS: NONE before a second CONCERNS line that lists two concerns
C14_Witness ==
    /\ ParsedText
    /\ review_text.text = << <<"SCORE:", "9", "0">>, <<"CONCERNS:", "NONE">>,
                             <<"CONCERNS:", "no", "tests", ",", "unsafe">> >>
    /\ parsed.concerns = <<>>

\* the fields whose marker a line contains
FieldsOf(line) ==
    {f \in {"score", "reasoning", "concerns"} :
        \/ f = "score" /\ HasScoreMarker(line)
        \/ f = "reasoning" /\ HasReasoningMarker(line)
        \/ f = "concerns" /\ HasConcernsMarker(line)}

\* the text is made of field lines, at most one for each field
IsFieldText(text) ==
    /\ \A i \in 1..Len(text) : Cardinality(FieldsOf(text[i])) = 1
    /\ \A i, j \in 1..Len(text) : i # j => FieldsOf(text[i]) # FieldsOf(text[j])

\* the lines of the text that belong to field f
OwnLines(text, f) ==
    LET Own(line) == f \in FieldsOf(line) IN SelectSeq(text, Own)

\* C15: the three extractions are independent and order-agnostic: the value
\* extracted for each field is the one extracted from that field's line
\* alone, whatever the order of the field lines and whichever of the other
\* two fields are present.
C15_FieldsIndependent ==
    (ParsedText /\ IsFieldText(review_text.text))
        => /\ parsed.score.value = extract_score(OwnLines(review_text.text, "score"))
           /\ parsed.reasoning = extract_reasoning(OwnLines(review_text.text, "reasoning"))
           /\ parsed.concerns = extract_concerns(OwnLines(review_text.text, "concerns"))

\* the line starts with its marker in upper case
StartsWithUpperMarker(line) == Len(line) > 0 /\ line[1] \in UpperColonPieces

\* C15 as amended: in a text made of at most one line per field, each line
\* starting with its marker in upper case, the value extracted for a field
\* whose line is present (with a digit, for the score) is the one extracted
\* from that line alone.
C15_PresentFieldsIndependent ==
    (/\ ParsedText
     /\ IsFieldText(review_text.text)
     /\ \A i \in 1..Len(review_text.text) : StartsWithUpperMarker(review_text.text[i]))
        => /\ DigitsOf(Flatten(OwnLines(review_text.text, "score"))) # <<>>
                => parsed.score.value = extract_score(OwnLines(review_text.text, "score"))
           /\ OwnLines(review_text.text, "reasoning") # <<>>
                => parsed.reasoning
                      = extract_reasoning(OwnLines(review_text.text, "reasoning"))
           /\ OwnLines(review_text.text, "concerns") # <<>>
                => parsed.concerns = extract_concerns(OwnLines(review_text.text, "concerns"))

\* the three field lines in the order concerns, reasoning, score
C15_Witness ==
    /\ ParsedText
    /\ review_text.text = << <<"CONCERNS:", "no", "tests", ",", "unsafe">>,
                             <<"REASONING:", "fixes", "2", "bugs">>,
                             <<"SCORE:", "9", "0">> >>
    /\ parsed.score.value = 90
    /\ parsed.reasoning = << <<"fixes", "2", "bugs">> >>
    /\ parsed.concerns = << <<"no", "tests">>, <<"unsafe">> >>

\* ------------------------------------------------------------------------
\* Properties of the usage meter
\* ------------------------------------------------------------------------
\* the count a usage record holds for a field, zero when it has none
CountIn(record, field) == IF field \in DOMAIN record THEN record[field] ELSE 0

\* C16: update_token_usage returns a new record whose prompt, completion and
\* total counters are the sums of the current counters and the incoming
\* counts, a missing field counting as zero, and leaves its two arguments as
\* they were.
C16_MergeSumsCounters ==
    /\ [](last_merge # EmptyDict =>
            /\ DOMAIN last_merge.new_tokens
                  = {"prompt_tokens", "completion_tokens", "total_tokens"}
            /\ last_merge.new_tokens.prompt_tokens
                  = CountIn(last_merge.current_usage, "prompt_tokens")
                      + CountIn(last_merge.new_usage, "prompt_token_count")
            /\ last_merge.new_tokens.completion_tokens
                  = CountIn(last_merge.current_usage, "completion_tokens")
                      + CountIn(last_merge.new_usage, "candidates_token_count")
            /\ last_merge.new_tokens.total_tokens
                  = CountIn(last_merge.current_usage, "total_tokens")
                      + CountIn(last_merge.new_usage, "total_token_count")
            /\ last_merge.current_usage = cumulative
            /\ \E i \in applied : last_merge.new_usage = incoming[i])
    /\ [][last_merge' # EmptyDict => (cumulative' = cumulative /\ incoming' = incoming)]_vars

\* counters 1/1/2 merged with a record that has a total only
C16_Witness ==
    /\ last_merge # EmptyDict
    /\ last_merge.current_usage
          = [prompt_tokens |-> MaxTokens, completion_tokens |-> MaxTokens,
             total_tokens |-> 2 * MaxTokens]
    /\ last_merge.new_usage = [total_token_count |-> MaxTokens]
    /\ last_merge.new_tokens.total_tokens = 3 * MaxTokens
    /\ last_merge.new_tokens.prompt_tokens = MaxTokens

\* C17: merging the three usage records one after the other gives the same
\* cumulative totals in every order of application, and no counter ever
\* decreases.
C17_MergeOrderIndependent ==
    /\ []((applied = 1..3 /\ last_merge = EmptyDict) =>
            /\ cumulative.prompt_tokens
                  = CountIn(incoming[1], "prompt_token_count")
                      + CountIn(incoming[2], "prompt_token_count")
                      + CountIn(incoming[3], "prompt_token_count")
            /\ cumulative.completion_tokens
                  = CountIn(incoming[1], "candidates_token_count")
                      + CountIn(incoming[2], "candidates_token_count")
                      + CountIn(incoming[3], "candidates_token_count")
            /\ cumulative.total_tokens
                  = CountIn(incoming[1], "total_token_count")
                      + CountIn(incoming[2], "total_token_count")
                      + CountIn(incoming[3], "total_token_count"))
    /\ [][\A k \in {"prompt_tokens", "completion_tokens", "total_tokens"} :
            CountIn(cumulative', k) >= CountIn(cumulative, k)]_vars

\* three different records, all merged
C17_Witness ==
    /\ applied = 1..3
    /\ last_merge = EmptyDict
    /\ incoming[1] = [total_token_count |-> MaxTokens]
    /\ incoming[2] = [prompt_token_count |-> MaxTokens]
    /\ incoming[3] = [prompt_token_count |-> MaxTokens, candidates_token_count |-> 0,
                      total_token_count |-> MaxTokens]
    /\ cumulative = [prompt_tokens |-> 2 * MaxTokens, completion_tokens |-> 0,
                     total_tokens |-> 2 * MaxTokens]

\* ------------------------------------------------------------------------
\* Properties of the router
\* ------------------------------------------------------------------------
\* the router call has returned or raised
Called == result.status # "none"

\* prompt and completion counts of the provider's reply
ReplyPrompt == IF request.reply.has_usage THEN request.reply.prompt ELSE 0
ReplyCompletion == IF request.reply.has_usage THEN request.reply.completion ELSE 0

\* C11: the usage a transport returns is in the shape the usage meter
\* consumes: merging the usage of a router call increases the prompt,
\* completion and total counters by the call's prompt, completion and total
\* counts.
C11_RouterUsageMerges ==
    (result.status = "ok" /\ cumulative # EmptyDict)
        => /\ cumulative.prompt_tokens = ReplyPrompt
           /\ cumulative.completion_tokens = ReplyCompletion
           /\ cumulative.total_tokens = ReplyPrompt + ReplyCompletion

\* the role is not a key of the role-to-config map
UnknownRole == request.agent_name \notin DOMAIN AGENT_MODEL_MAP

\* C18: a call with a role absent from the map resolves to the default
\* configuration (Claude Sonnet 4, temperature 0.2, 8192 output tokens) and is
\* dispatched to the Anthropic transport; with an override model only the
\* model changes; get_model_for_agent returns the default model.
C18_UnknownRoleDefault ==
    (Called /\ UnknownRole /\ request.custom_config = EmptyDict)
        => /\ get_model_for_agent(request.agent_name) = "claude-sonnet-4-20250514"
           /\ Len(dispatched) = 1
           /\ dispatched[1].config.temperature = "0.2"
           /\ dispatched[1].config.max_tokens = 8192
           /\ request.override_model = "None"
                => /\ dispatched[1].config.provider = "claude-sonnet-4-20250514"
                   /\ dispatched[1].transport = "call_anthropic"
                   /\ request.anthropic_api_key
                        => requests = <<[transport   |-> "call_anthropic",
                                         model       |-> "claude-sonnet-4-20250514",
                                         temperature |-> "0.2",
                                         max_tokens  |-> 8192]>>
           /\ request.override_model # "None"
                => dispatched[1].config.provider = request.override_model

\* an unknown role, answered by the Anthropic API
C18_Witness ==
    /\ UnknownRole
    /\ request.custom_config = EmptyDict
    /\ request.override_model = "None"
    /\ result.status = "ok"
    /\ Len(requests) = 1
    /\ requests[1].model = "claude-sonnet-4-20250514"

\* the provider the call is to use: the custom configuration's, else the
\* override model, else the role's
ExpectedProvider ==
    IF request.custom_config # EmptyDict THEN request.custom_config.provider
    ELSE IF request.override_model # "None" THEN request.override_model
    ELSE get_model_for_agent(request.agent_name)

\* the transport of each provider
ExpectedTransport ==
    CASE ExpectedProvider = "claude-sonnet-4-20250514" -> "call_anthropic"
      [] ExpectedProvider = "gemini-3-pro-preview" -> "call_google"
      [] ExpectedProvider \in {"azureml-xai/grok-3", "azure-openai/gpt-5"}
            -> "call_github_models"

\* C19: a call dispatches to exactly one transport, that of the resolved
\* provider (custom configuration before override model before role map);
\* the transport issues exactly one request, and a transport or payload
\* failure reaches the caller without a retry.
C19_OneTransportOneRequest ==
    Called
        => /\ Len(dispatched) = 1
           /\ dispatched[1].transport = ExpectedTransport
           /\ dispatched[1].config.provider = ExpectedProvider
           /\ Len(requests) = 1
           /\ requests[1].transport = ExpectedTransport
           /\ request.reply.kind # "ok" => result.status = "raised"

\* the API key of the provider's transport is not set, or the Google SDK is
\* not installed
ExpectedKeyMissing ==
    \/ ExpectedTransport = "call_anthropic" /\ ~request.anthropic_api_key
    \/ ExpectedTransport = "call_google" /\ ~request.google_api_key
    \/ ExpectedTransport = "call_google" /\ ~request.google_sdk

\* C19 as amended: the transport issues exactly one request, or none when the
\* API key of its provider is not set or the Google SDK is not installed and
\* it raises ValueError or ImportError instead.
C19_OneTransportAtMostOneRequest ==
    Called
        => /\ Len(dispatched) = 1
           /\ dispatched[1].transport = ExpectedTransport
           /\ dispatched[1].config.provider = ExpectedProvider
           /\ IF ExpectedKeyMissing
              THEN /\ requests = <<>>
                   /\ result.status = "raised"
                   /\ result.exception \in {"ValueError", "ImportError"}
              ELSE /\ Len(requests) = 1
                   /\ requests[1].transport = ExpectedTransport
                   /\ requests[1].model = ExpectedProvider
                   /\ request.reply.kind # "ok" => result.status = "raised"
                   /\ request.reply.kind = "ok" => result.status = "ok"

\* a custom configuration and an override model together, and an error status
\* from the GitHub Models API
C19_Witness ==
    /\ Called
    /\ request.custom_config # EmptyDict
    /\ request.override_model = "gemini-3-pro-preview"
    /\ request.reply.kind = "http_error"
    /\ result.status = "raised"
    /\ Len(requests) = 1
    /\ requests[1].model = "azure-openai/gpt-5"

\* ------------------------------------------------------------------------
\* Properties of get_llm_router
\* ------------------------------------------------------------------------
\* C20: under every interleaving of concurrent calls the router is
\* constructed at most once, every call that returns returns that one
\* instance, and so do later calls.
C20_SingleFlight ==
    /\ constructed <= 1
    /\ router_instance \in {0, 1}
    /\ router_instance = 1 => constructed = 1
    /\ \A t \in DOMAIN thread_pc :
          /\ thread_pc[t] = "return" => router_instance = 1
          /\ thread_ret[t] \in {0, 1}
          /\ \A u \in DOMAIN thread_pc :
                (thread_ret[t] # 0 /\ thread_ret[u] # 0) => thread_ret[t] = thread_ret[u]

\* thread 1 has its instance; thread 2, which saw None before the lock, is
\* now under the lock; thread 3 is waiting for it
C20_Witness ==
    /\ MaxThreads >= 3
    /\ DOMAIN thread_pc = Threads
    /\ thread_ret[1] = 1
    /\ thread_pc[2] = "locked"
    /\ thread_pc[3] = "acquire"
    /\ constructed = 1

\* C21: the Google SDK handle of a router is initialised at most once, also
\* when several calls for that provider run concurrently: no interleaving
\* runs genai.configure twice.
C21_GenaiInitOnce == genai_configured <= 1

\* the formatted text ret has a line for the lesson
IncludesLesson(ret, lesson) ==
    \E i \in 1..Len(ret.lines) :
        /\ ret.lines[i].topic = lesson.topic
        /\ ret.lines[i].solution = lesson.solution

\* the last call retrieved with the exact topic of the lesson stored by the
\* call before it
RetrievedStoredTopic ==
    /\ mem_last.op = "retrieve"
    /\ mem_last.stored # <<>>
    /\ mem_last.query = mem_last.stored[1].topic

\* the lessons stored before the given one whose topic and context hold every
\* word of its topic
PriorFullMatches(lesson) ==
    {i \in 1..Len(mem_data) :
        /\ mem_data[i].id # lesson.id
        /\ WordsOf(lesson.topic) \subseteq
               (WordsOf(mem_data[i].topic) \cup WordsOf(mem_data[i].context))}

\* C22: for any prior store contents, after storing a lesson L, retrieving
\* with L's exact topic and a top-K limit returns text that includes L.
C22_RoundTrip ==
    RetrievedStoredTopic => IncludesLesson(mem_last.ret, mem_last.stored[1])

\* C22 (amended): when the store ranks by keywords, L's topic has at least one
\* word and fewer than K lessons stored before L hold every word of L's
\* topic, the text retrieved with L's exact topic and limit K includes L.
C22_RoundTripWhenRoom ==
    (/\ RetrievedStoredTopic
     /\ mem_last.ret.path = "keywords"
     /\ mem_last.query # <<>>
     /\ Cardinality(PriorFullMatches(mem_last.stored[1])) < mem_last.top_k)
        => IncludesLesson(mem_last.ret, mem_last.stored[1])

C22_Witness ==
    /\ RetrievedStoredTopic
    /\ mem_last.ret.path = "keywords"
    /\ Len(mem_data) = 2
    /\ matches(mem_data[1], mem_last.query) = 1
    /\ PriorFullMatches(mem_last.stored[1]) = {}
    /\ mem_last.ret.lines = <<[topic    |-> mem_last.stored[1].topic,
                               solution |-> mem_last.stored[1].solution]>>

\* positions of the lessons with the given id in a list
PositionsOf(lesson_list, lesson_id) ==
    {i \in 1..Len(lesson_list) : lesson_list[i].id = lesson_id}

\* the list without its i-th lesson, the others in the same order
WithoutAt(lesson_list, i) ==
    SubSeq(lesson_list, 1, i - 1) \o SubSeq(lesson_list, i + 1, Len(lesson_list))

\* the last call was delete_lesson and it removed exactly the lesson of that
\* id, or found none and changed nothing in memory or in the file
DeletedOneOrNone ==
    LET found == PositionsOf(mem_last.data_before, mem_last.lesson_id)
    IN  IF found = {}
        THEN /\ mem_last.ret = FALSE
             /\ mem_data = mem_last.data_before
             /\ mem_file = mem_last.file_before
        ELSE /\ mem_last.ret = TRUE
             /\ \E i \in found : mem_data = WithoutAt(mem_last.data_before, i)

\* C23: delete(id) removes at most one lesson, the one with that id, leaves
\* the others unchanged and in order, persists the result and returns true;
\* when no lesson has that id it returns false and leaves store and file
\* unchanged.
C23_DeleteContract ==
    (mem_last.op = "delete")
        => /\ DeletedOneOrNone
           /\ mem_last.ret => mem_file = json_dump(mem_data)

\* C23 (amended): as C23, except that the result is persisted unless the
\* write of the file fails, which leaves the old file or a damaged one; the
\* call returns true in both cases.
C23_DeleteContractUnlessWriteFails ==
    (mem_last.op = "delete")
        => /\ DeletedOneOrNone
           /\ mem_last.ret =>
                  mem_file \in {json_dump(mem_data), mem_last.file_before,
                                [kind |-> "corrupt"]}

C23_Witness ==
    /\ mem_last.op = "delete"
    /\ mem_last.ret = TRUE
    /\ Len(mem_last.data_before) = 2
    /\ mem_last.lesson_id = mem_last.data_before[1].id
    /\ mem_data = <<mem_last.data_before[2]>>
    /\ mem_file = json_dump(mem_data)
    /\ mem_file # mem_last.file_before

\* the texts retrieve_context returns when it has no lesson to show on the
\* keyword path or for an empty store
NoLessonsSentinels ==
    {"No prior lessons found.", "No prior lessons found for this topic."}

\* no stored lesson shares a word with the query of the last call
NothingShared ==
    \A i \in 1..Len(mem_data) : matches(mem_data[i], mem_last.query) = 0

\* the lessons shown by the last call share a word with its query
ShownLessonsShare ==
    \A i \in 1..Len(mem_last.ret.lines) :
        \E j \in 1..Len(mem_data) :
            /\ mem_data[j].topic = mem_last.ret.lines[i].topic
            /\ mem_data[j].solution = mem_last.ret.lines[i].solution
            /\ matches(mem_data[j], mem_last.query) > 0

\* C24: retrieve returns the "no lessons found" sentinel when the store is
\* empty and when no stored lesson shares a token with the query; on the
\* keyword path a lesson with no shared token is never returned.
C24_SentinelWhenNothingShared ==
    (mem_last.op = "retrieve")
        => /\ NothingShared =>
                  (mem_last.ret.text \in NoLessonsSentinels /\ mem_last.ret.lines = <<>>)
           /\ (mem_last.ret.path = "keywords") => ShownLessonsShare

\* C24 (amended): retrieve returns the sentinel when the store is empty, and
\* on the keyword path when no stored lesson shares a token with the query;
\* on the keyword path a lesson with no shared token is never returned.
C24_SentinelOnKeywordPath ==
    (mem_last.op = "retrieve")
        => /\ (NothingShared /\ mem_last.ret.path # "embeddings") =>
                  (mem_last.ret.text \in NoLessonsSentinels /\ mem_last.ret.lines = <<>>)
           /\ (mem_last.ret.path = "keywords") => ShownLessonsShare

C24_Witness ==
    /\ mem_last.op = "retrieve"
    /\ mem_last.ret.path = "keywords"
    /\ Len(mem_data) = 2
    /\ NothingShared
    /\ mem_last.query # <<>>
    /\ mem_last.ret.text = "No prior lessons found for this topic."

\* the lessons of the instance have pairwise distinct ids
DistinctIds ==
    \A i, j \in 1..Len(mem_data) : mem_data[i].id = mem_data[j].id => i = j

\* after a store or delete a new instance would load exactly the lessons in
\* memory, and the instance opened last did load them
FileHoldsStore ==
    /\ mem_last.op \in {"store", "delete"} =>
           (load_memory(mem_file) = mem_data /\ DistinctIds)
    /\ mem_last.op = "open" => (mem_data = mem_last.data_before /\ DistinctIds)

InvokeOver == daemon_pc = "process_request" /\ pc \in {"END", "ERROR"}

\* the status the end of this run has to show: "ERROR" with the text of the
\* exception when a stage raised, else the snapshot of the final state
IsFinalStatus(content) ==
    /\ pc = "ERROR" =>
           /\ content.current_status = <<"ERROR">>
           /\ content.last_message.text = raised
    /\ pc = "END" => content = Snapshot(state)

\* C26: when a stage raises and aborts the run, the last snapshot published
\* has status "ERROR" and carries the failure text, and process_request returns
\* to the polling loop; on success the last snapshot published is that of the
\* final state; a final snapshot is published in both cases.
C26_FinalSnapshot ==
    [][InvokeOver =>
          /\ daemon_pc' = "poll"
          /\ status_file'.kind = "json"
          /\ IsFinalStatus(status_file'.content)]_vars

\* C26 (amended): in both cases process_request writes that final snapshot
\* and returns to the polling loop; the published file holds it unless the
\* write fails, which is logged only: the file then keeps what it held or is
\* left incomplete.
C26_FinalSnapshotUnlessWriteFails ==
    [][InvokeOver =>
          /\ daemon_pc' = "poll"
          /\ IsFinalStatus(last_snapshot'.content)
          /\ last_snapshot'.outcome = "written" =>
                 status_file' = [kind |-> "json", content |-> last_snapshot'.content]
          /\ last_snapshot'.outcome = "open failed" => status_file' = status_file
          /\ last_snapshot'.outcome = "dump failed" => status_file'.kind = "corrupt"]_vars

\* the Dev Squad raised after two published stages, and the error status
\* replaced theirs
C26_Witness ==
    /\ daemon_pc = "poll"
    /\ pc = "ERROR"
    /\ "dev_squad" \in failed_calls
    /\ raised = "HTTPStatusError"
    /\ last_snapshot.outcome = "written"
    /\ status_file.kind = "json"
    /\ status_file.content.current_status = <<"ERROR">>
    /\ status_file.content.last_message = [prefix |-> "Error: ", text |-> "HTTPStatusError"]

\* ------------------------------------------------------------------------
\* C27: provider-call failures of the Spec, EnvSetup and Generate stages
\* ------------------------------------------------------------------------
\* the provider call of the stage failed, the exception was re-raised and the
\* invocation stopped there
HaltedAt(stage) ==
    /\ pc = "ERROR"
    /\ Last(trace) = stage
    /\ raised \in ProviderErrors

\* C27: a provider-call failure during EnvSetup is re-raised and halts the
\* invocation, exactly as for Spec and Generate: none of the three stages
\* substitutes a default value and continues.
C27_FailureHalts ==
    \A stage \in failed_calls \cap {"product_owner", "tech_lead", "dev_squad"} :
        HaltedAt(stage)

\* C27 (amended): a provider-call failure during Spec or Generate is re-raised
\* and halts the invocation; one during EnvSetup is logged, and the stage
\* completes with the environment mode defaulted to DEV and the usage
\* counters unchanged, and Generate runs next.
C27_FailureHaltsButEnvSetupDefaults ==
    /\ [](\A stage \in failed_calls \cap {"product_owner", "dev_squad"} :
             HaltedAt(stage))
    /\ [][(pc = "tech_lead" /\ "tech_lead" \in failed_calls') =>
              /\ pc' = "dev_squad"
              /\ raised' = "none"
              /\ Get(state', "env_mode", "") = "DEV"
              /\ Get(state', "total_tokens", EmptyDict)
                     = Get(state, "total_tokens", EmptyDict)]_vars

\* the run went on to approval after the Tech Lead's call had failed
C27_Witness ==
    /\ "tech_lead" \in failed_calls
    /\ pc = "END"
    /\ route = "approved"
    /\ Get(state, "env_mode", "") = "DEV"
    /\ raised = "none"

\* ------------------------------------------------------------------------
\* C28: what an approving Review does
\* ------------------------------------------------------------------------
\* the step of the Council after which the graph takes the "approved" edge
ApprovedStep == pc = "council" /\ route' = "approved"

\* the state after the step is the state merged with the update the Council
\* builds from the opinions and one of the arbitration outcomes
ReturnsCouncilUpdate ==
    \E arb \in ArbOutcomes :
        \E res \in {arbitrate_reviews(opinions, arb)} :
            state' = ApplyUpdate(state, council_update(state, opinions,
                                                       res.final_score, res.usage))

\* C28: whenever the transition out of Review is Approved, that Review has
\* attempted to store exactly one lesson and then attempted the push before
\* the run terminates; whether the store or the push fails (no lesson more,
\* no push more) changes neither the update returned nor the transition.
C28_ApprovedStoresThenPushes ==
    [][ApprovedStep =>
          /\ effects' = effects \o <<"store_lesson", "push_to_github">>
          /\ lessons' \in {lessons, lessons + 1}
          /\ pushed' \in {pushed, pushed + 1}
          /\ ReturnsCouncilUpdate
          /\ pc' = "END"]_vars

\* approved although both the lesson store and the push failed
C28_Witness ==
    /\ route = "approved"
    /\ pc = "END"
    /\ lessons = 0
    /\ pushed = 0
    /\ Len(effects) >= 2
    /\ SubSeq(effects, Len(effects) - 1, Len(effects))
           = <<"store_lesson", "push_to_github">>
    /\ Get(state, "current_status", "") = "Agent: The Council (Multi-LLM Review Complete)"

\* ------------------------------------------------------------------------
\* C29: the feedback text for the next generation attempt
\* ------------------------------------------------------------------------
\* positions of the opinions that have at least one concern
WithConcerns(ops) == {i \in 1..Len(ops) : Len(ops[i].concerns) > 0}

\* the text has a line with the reviewer and the score of the opinion,
\* followed by one line for each of its concerns, in their order
ListsOpinion(text, op) ==
    \E k \in 1..Len(text) :
        /\ text[k] = <<"reviewer", op.reviewer, op.model, op.score>>
        /\ k + Len(op.concerns) <= Len(text)
        /\ \A j \in 1..Len(op.concerns) : text[k + j] = <<"bullet", op.concerns[j]>>

\* C29: the feedback text is never empty: when no opinion has a concern it is
\* the "no major issues" sentinel; otherwise it lists, for each opinion that
\* has at least one concern, the reviewer, its score and every concern.
C29_FeedbackNeverEmpty ==
    fb_result.returned =>
        /\ fb_result.text # <<>>
        /\ \A k \in 1..Len(fb_result.text) : fb_result.text[k] # <<>>
        /\ WithConcerns(fb_opinions) = {} => fb_result.text = <<<<NoMajorIssues>>>>
        /\ WithConcerns(fb_opinions) # {} =>
               /\ fb_result.text # <<<<NoMajorIssues>>>>
               /\ \A i \in WithConcerns(fb_opinions) :
                      ListsOpinion(fb_result.text, fb_opinions[i])

\* three opinions, the first without a concern, the second with two, the
\* third the default of a failed review
C29_Witness ==
    /\ fb_result.returned
    /\ fb_opinions = <<ParsedOpinion("GPT-5", "council_gpt", ReviewGood),
                       ParsedOpinion("Gemini", "council_gemini", ReviewBad),
                       ErrorOpinion("Claude")>>
    /\ Len(fb_opinions[2].concerns) = 2
    /\ Len(fb_result.text) = 8

\* ------------------------------------------------------------------------
\* C30: the snapshot of every completed stage
\* ------------------------------------------------------------------------
\* current_status of the update each stage returns
StageStatus ==
    [product_owner |-> "Agent: Product Owner (Refining Spec)",
     tech_lead     |-> "Agent: Tech Lead (Setup & Dispatch)",
     dev_squad     |-> "Agent: Dev Squad (Coding)",
     council       |-> "Agent: The Council (Multi-LLM Review Complete)"]

\* a step in which a stage returns its update
StageCompletes ==
    /\ pc \in DOMAIN StageStatus
    /\ pc' \notin {pc, "ERROR"}

\* the node the graph runs after the stage, given the merged state
AfterStage(stage, merged) ==
    CASE stage = "product_owner" -> "tech_lead"
      [] stage = "tech_lead" -> "dev_squad"
      [] stage = "dev_squad" -> "council"
      [] stage = "council" -> CouncilEdges[route_council(merged)]

\* C30: every completed stage (Spec, Setup, Generate, Review) hands the
\* snapshot of the state merged with its update to the status file before the
\* next stage starts; when the write succeeds the file holds that snapshot;
\* when it fails, the file keeps what it held or is left incomplete, and the
\* update merged and the next node are those of the stage all the same.
C30_StageSnapshot ==
    [][StageCompletes =>
          /\ last_snapshot'.content = Snapshot(state')
          /\ last_snapshot'.content.current_status = <<StageStatus[pc]>>
          /\ last_snapshot'.outcome = "written" =>
                 status_file' = [kind |-> "json", content |-> Snapshot(state')]
          /\ last_snapshot'.outcome = "open failed" => status_file' = status_file
          /\ last_snapshot'.outcome = "dump failed" => status_file'.kind = "corrupt"
          /\ Get(state', "current_status", "") = StageStatus[pc]
          /\ pc' = AfterStage(pc, state')
          /\ raised' = "none"]_vars

\* the snapshot of the Dev Squad could not be written: the file still shows
\* the starting run and the Council runs next
C30_Witness ==
    /\ pc = "council"
    /\ trace = <<"product_owner", "tech_lead", "dev_squad">>
    /\ last_snapshot.outcome = "open failed"
    /\ last_snapshot.content = Snapshot(state)
    /\ last_snapshot.content.current_status = <<"Agent: Dev Squad (Coding)">>
    /\ status_file.kind = "json"
    /\ status_file.content.current_status = <<"INITIALIZING">>

\* ------------------------------------------------------------------------
\* C31: the score of a marker line
\* ------------------------------------------------------------------------
\* position of the first SCORE:/FINAL_SCORE: marker of a line that has one
MarkerAt(line) ==
    CHOOSE i \in 1..Len(line) :
        /\ line[i] \in {"SCORE:", "FINAL_SCORE:", "score:"}
        /\ \A k \in 1..(i - 1) : line[k] \notin {"SCORE:", "FINAL_SCORE:", "score:"}

\* the digits of the line that follow its marker
DigitsAfterMarker(line) ==
    DigitsOf(SubSeq(line, MarkerAt(line) + 1, Len(line)))

\* the lines of the text that hold a score marker
ScoreLines(text) == {i \in 1..Len(text) : HasScoreMarker(text[i])}

\* the first marker line of the text, when digits that int() accepts follow
\* its marker
FirstScoreLine(text) == CHOOSE i \in ScoreLines(text) : \A k \in ScoreLines(text) : i <= k

HasScoreAfterMarker(text) ==
    /\ ScoreLines(text) # {}
    /\ DigitsAfterMarker(text[FirstScoreLine(text)]) # <<>>
    /\ ~IntRaises(DigitsAfterMarker(text[FirstScoreLine(text)]))

\* C31: for a line containing the SCORE:/FINAL_SCORE: marker the parsed score
\* is the integer formed by the digits that follow the marker, clamped to
\* [0,100]; digits elsewhere on the line or in the text do not count.
C31_ScoreFromDigitsAfterMarker ==
    (ParsedText /\ HasScoreAfterMarker(review_text.text))
        => parsed.score.value
              = Clamp(ToInt(DigitsAfterMarker(review_text.text[FirstScoreLine(review_text.text)])))

\* ------------------------------------------------------------------------
\* C32: the extent of the reasoning
\* ------------------------------------------------------------------------
\* the first line of the text that holds a REASONING: marker
ReasoningLine(text) ==
    CHOOSE i \in 1..Len(text) :
        /\ HasReasoningMarker(text[i])
        /\ \A k \in 1..(i - 1) : ~HasReasoningMarker(text[k])

\* the pieces of a line after its REASONING: marker
AfterReasoningMarker(line) ==
    LET at == CHOOSE i \in 1..Len(line) : line[i] \in {"REASONING:", "reasoning:"}
    IN  SubSeq(line, at + 1, Len(line))

\* the first line after line i that is an all-caps field marker line
\* (Len(text) + 1 when there is none)
NextFieldLine(text, i) ==
    LET after == {k \in (i + 1)..Len(text) : IsFieldLine(text[k])} \cup {Len(text) + 1}
    IN  CHOOSE k \in after : \A m \in after : k <= m

\* the first line after line i that is a field marker line or blank
NextFieldOrBlankLine(text, i) ==
    LET after == {k \in (i + 1)..Len(text) : IsFieldLine(text[k]) \/ text[k] = <<>>}
                    \cup {Len(text) + 1}
    IN  CHOOSE k \in after : \A m \in after : k <= m

HasReasoning(text) == \E i \in 1..Len(text) : HasReasoningMarker(text[i])

\* C32: the reasoning starts after the REASONING: marker and spans the
\* following lines until the next all-caps field marker line or a blank run,
\* whichever comes first, the parts joined by single spaces; text after a
\* blank line is not part of it.
C32_ReasoningUntilFieldOrBlank ==
    (ParsedText /\ HasReasoning(review_text.text)) =>
        LET text == review_text.text
            i == ReasoningLine(text)
        IN  parsed.reasoning
               = <<AfterReasoningMarker(text[i])>>
                    \o SubSeq(text, i + 1, NextFieldOrBlankLine(text, i) - 1)

\* C32 (amended): the reasoning starts after the first colon of the line that
\* holds the marker and takes the non-blank lines that follow, up to the next
\* all-caps field marker line or the end of the text; blank lines are skipped,
\* so text after a blank line belongs to it.
C32_ReasoningUntilField ==
    (ParsedText /\ HasReasoning(review_text.text)) =>
        LET text == review_text.text
            i == ReasoningLine(text)
        IN  parsed.reasoning
               = <<SubSeq(text[i], FirstColon(text[i]) + 1, Len(text[i]))>>
                    \o SelectSeq(SubSeq(text, i + 1, NextFieldLine(text, i) - 1), NonEmpty)

\* a line after a blank line is taken into the reasoning
C32_Witness ==
    /\ ParsedText
    /\ review_text.text = << <<"REASONING:", "solid">>, <<>>, <<"found", "3", "bugs">> >>
    /\ parsed.reasoning = << <<"solid">>, <<"found", "3", "bugs">> >>

\* ------------------------------------------------------------------------
\* C33: the score changes of the report
\* ------------------------------------------------------------------------
\* a line "<reviewer>: <previous> -> <current> (<signed change>) <icon>"
IsChangeLine(line) == Len(line) >= 4 /\ line[4] = "->"

ChangeLinesOf(report, reviewer) ==
    {k \in 1..Len(report) : IsChangeLine(report[k]) /\ report[k][1] = reviewer}

HasChangeBlock(report) ==
    \E k \in 1..Len(report) : report[k] = <<"AMELIORATIONS / CHANGEMENTS:">>

\* the number a sign and a magnitude stand for
SignedValue(sign, magnitude) == IF sign = "-" THEN 0 - magnitude ELSE magnitude

\* C33: the report holds a block of score changes only when the review before
\* left an opinion of the same reviewer; each opinion whose reviewer has an
\* earlier opinion gets one line with the previous score, the current score
\* and current - previous written with its sign, and an opinion whose reviewer
\* has none gets no line.
C33_ScoreChanges ==
    rep_call.returned =>
        LET ops == rep_call.opinions
            previous == rep_call.previous_reviews
            report == rep_call.report
        IN  /\ HasChangeBlock(report) =>
                   \E i \in 1..Len(ops) : PrevReviews(previous, ops[i]) # {}
            /\ \A i \in 1..Len(ops) :
                   LET found == PrevReviews(previous, ops[i])
                       shown == ChangeLinesOf(report, ops[i].reviewer)
                   IN  IF found = {} THEN shown = {}
                       ELSE /\ Cardinality(shown) = 1
                            /\ \A k \in shown : \E m \in found :
                                   /\ report[k][3] = previous[m].score
                                   /\ report[k][5] = ops[i].score
                                   /\ report[k][6] \in {"+", "-"}
                                   /\ SignedValue(report[k][6], report[k][7])
                                          = ops[i].score - previous[m].score

\* a second review whose report shows a score that fell and one that rose
C33_Witness ==
    /\ rep_call.returned
    /\ rep_round = 2
    /\ HasChangeBlock(rep_call.report)
    /\ rep_call.opinions[1].score < rep_call.previous_reviews[1].score
    /\ rep_call.opinions[2].score > rep_call.previous_reviews[2].score
    /\ \E k \in ChangeLinesOf(rep_call.report, "GPT-5") : rep_call.report[k][6] = "-"
    /\ \E k \in ChangeLinesOf(rep_call.report, "Gemini") : rep_call.report[k][6] = "+"

\* ------------------------------------------------------------------------
\* C34: a request is archived before it is processed
\* ------------------------------------------------------------------------
Archived(req) ==
    /\ processed_file # <<>>
    /\ processed_file[1].request = req
    /\ request_file # <<req>>

\* C34: when the daemon starts to process a request it has detected, a copy
\* with processed_at is in the processed file and the request is no longer
\* in the request file, and no request written to the request file is
\* processed more than once, however many polls follow.
C34_ArchivedThenProcessedOnce ==
    /\ loop_pc = "process_request" => Archived(loop_request[1])
    /\ \A r \in 1..MaxRequests : processed_count[r] <= 1

\* ------------------------------------------------------------------------
\* C35: a lesson is stored on approval only
\* ------------------------------------------------------------------------
\* C35: a Review stores a lesson only if the transition out of it is
\* Approved (none when it loops back to Generate or ends in FailedSafety),
\* and a run stores at most one lesson.
C35_LessonOnlyOnApproval ==
    /\ [][(pc = "council" /\ lessons' # lessons) => route' = "approved"]_vars
    /\ [](lessons <= 1)

\* ------------------------------------------------------------------------
\* C36: the bound on Review and Generate
\* ------------------------------------------------------------------------
\* C36: in a run Review executes at most max_feedback_loops + 1 times and
\* Generate at most max_feedback_loops + 1 times, and the run is Approved
\* only at a Review that leaves the loop counter at most max_feedback_loops.
C36_BoundedStages ==
    /\ Count(trace, "council") <= max_feedback_loops + 1
    /\ Count(trace, "dev_squad") <= max_feedback_loops + 1
    /\ route = "approved" => state.feedback_loop_count <= max_feedback_loops

\* the sixth Review, after the sixth Generate, ends the run
C36_Witness ==
    /\ Count(trace, "council") = max_feedback_loops + 1
    /\ Count(trace, "dev_squad") = max_feedback_loops + 1
    /\ state.feedback_loop_count = max_feedback_loops + 1
    /\ route = "failed"
    /\ pc = "END"

\* ------------------------------------------------------------------------
\* C37: the cumulative usage counter
\* ------------------------------------------------------------------------
\* the total units of a usage returned by the router
UsageTotal(usage) == Get(usage, "total_token_count", 0)

\* the total units counted in the state
TotalUnits(st) == Get(Get(st, "total_tokens", EmptyDict), "total_tokens", 0)

ReviewerCallStep == pc = "council" /\ Len(opinions') = Len(opinions) + 1

ArbitrationStep == pc = "council" /\ Len(opinions) = Len(reviewers) /\ opinions' = <<>>

\* each call of the Council adds the total units it returned
CouncilCallsCounted ==
    /\ ReviewerCallStep =>
           TotalUnits(state')
               = TotalUnits(state) + UsageTotal(outcomes'[Len(outcomes')].usage)
    /\ ArbitrationStep =>
           \E arb \in ArbOutcomes :
               /\ arb.ok = (arbitration' = "ok")
               /\ TotalUnits(state')
                      = TotalUnits(state) + UsageTotal(call_anthropic_usage(arb.usage))

\* C37: the cumulative total-unit counter of the state is the sum of the
\* total units of every successful model call made so far: it starts at
\* zero, and each reviewer call and each arbitration call of the Council adds
\* the total units the call returned (nothing when the call failed).
C37_UsageCountsEveryCall ==
    /\ (trace = <<>> => TotalUnits(state) = 0)
    /\ [][CouncilCallsCounted]_vars

\* ------------------------------------------------------------------------
\* C38: the loop count of successive snapshots
\* ------------------------------------------------------------------------
\* the feedback_loop_count of the snapshot handed to the status file last
\* (that of the initial status before any stage has completed)
PublishedLoopCount(snapshot) ==
    IF snapshot.outcome = "none" THEN 0
    ELSE snapshot.content.feedback_loop_count[1]

ReturnedToLoop == daemon_pc = "poll"

\* C38: within one process_request, the feedback_loop_count of successive
\* snapshots never decreases, from the initial snapshot through the stage
\* snapshots to the final one (success or ERROR), and the final snapshot
\* carries the number of Review executions completed.
C38_LoopCountNeverDecreases ==
    /\ [][PublishedLoopCount(last_snapshot') >= PublishedLoopCount(last_snapshot)]_vars
    /\ [](ReturnedToLoop =>
             PublishedLoopCount(last_snapshot) = Count(calls, "arbitration"))

\* the steps other than the write of the ERROR status
NotErrorWrite == ~(daemon_pc = "process_request" /\ pc = "ERROR")

\* C38 (amended): the same through the stage snapshots to the final snapshot
\* of a run whose graph returned, which carries the number of Review
\* executions completed; the ERROR snapshot written when a stage raised
\* carries 0, whatever was published before.
C38_LoopCountNeverDecreasesUnlessError ==
    /\ [][NotErrorWrite =>
             PublishedLoopCount(last_snapshot') >= PublishedLoopCount(last_snapshot)]_vars
    /\ [](ReturnedToLoop =>
             PublishedLoopCount(last_snapshot)
                 = IF pc = "ERROR" THEN 0 ELSE Count(calls, "arbitration"))

\* the Dev Squad raised after one completed Review: the ERROR snapshot
\* carries 0 where the Council's carried 1
C38_Witness ==
    /\ ReturnedToLoop
    /\ pc = "ERROR"
    /\ Count(calls, "arbitration") = 1
    /\ state.feedback_loop_count = 1
    /\ last_snapshot.content.current_status = <<"ERROR">>
    /\ last_snapshot.content.feedback_loop_count = <<0>>

\* ------------------------------------------------------------------------
\* C39: the range of the quality score
\* ------------------------------------------------------------------------
\* C39: after a Review execution the quality score of the state is an
\* integer from 0 to 100, whether it was parsed from the arbitration reply
\* or is the floor of the average of the reviewers' scores.
C39_QualityScoreInRange ==
    Count(calls, "arbitration") > 0 =>
        /\ state.quality_score \in 0..100
        /\ arbitration = "failed" =>
               state.quality_score = average_score(state.previous_reviews)

\* the arbitration call failed after one reviewer's call had failed: the
\* score is the floor of (90 + 50 + 90) / 3
C39_Witness ==
    /\ Count(calls, "arbitration") = 1
    /\ arbitration = "failed"
    /\ state.previous_reviews[1].score = 90
    /\ state.previous_reviews[2].score = 50
    /\ state.previous_reviews[3].score = 90
    /\ state.quality_score = 76

\* ------------------------------------------------------------------------
\* C40: the environment mode after EnvSetup
\* ------------------------------------------------------------------------
EnvSetupDone == Count(trace, "tech_lead") > 0

\* C40: once EnvSetup has executed, env_mode is DEV or PROD, whatever the
\* request said, whatever the model replied and whether its call failed, so
\* the transition out of Review compares the score with the DEV or the PROD
\* threshold.
C40_EnvModeDevOrProd ==
    EnvSetupDone =>
        /\ state.env_mode \in {"DEV", "PROD"}
        /\ (Reviewed /\ state.feedback_loop_count <= max_feedback_loops) =>
               (route = "approved")
                   = (state.quality_score
                         > (IF state.env_mode = "DEV" THEN dev_quality_threshold
                            ELSE prod_quality_threshold))

\* a request for "staging" whose EnvSetup call failed: the run is reviewed
\* as DEV and approved at 76
C40_Witness ==
    /\ request_data.env_mode = "staging"
    /\ "tech_lead" \in failed_calls
    /\ state.env_mode = "DEV"
    /\ route = "approved"
    /\ state.quality_score = 76
====
